---- MODULE Spec2Model ----
(***************************************************************************)
(* Model of the examination system: the exam-taking screen                 *)
(* (ui/student.py, ExamTakeFrame and StudentFrame.open_by_code), the       *)
(* application shell (main.py) and the scoring function of models.py.      *)
(*                                                                         *)
(* The program is a single-threaded Tk application.  A handler runs to     *)
(* completion unless it opens a modal message box: the box runs a nested   *)
(* event loop, so timer callbacks (after) and <FocusOut> events are still  *)
(* dispatched while the box is open, whereas the buttons of the main       *)
(* window are not.  The variable stack holds the open boxes, innermost     *)
(* last; closing the innermost box resumes the handler that opened it.     *)
(*                                                                         *)
(* Time is counted in clock units, Sub units to the second, so that        *)
(* time.time() has sub-second resolution and int(...) really truncates.    *)
(***************************************************************************)
EXTENDS Integers, Sequences, FiniteSets, TLC

VARIABLES
    \* ---- DataStore ----
    exams,              \* data["exams"]
    attempts,           \* data["attempts"], in insertion order
    \* ---- App ----
    frame,              \* current_frame_name
    current_user,       \* App.current_user
    \* ---- ExamTakeFrame ----
    exam,               \* self.exam
    view,               \* which of intro_view / taking_view / result_view is packed
    index,              \* self.index (display index, 1-based here)
    answers,            \* self.answers, by real index (1-based here)
    marked_questions,   \* self.marked_questions (display indices)
    shuffled_indices,   \* self.shuffled_indices: display index -> real index
    started_at,         \* self.started_at (clock units)
    end_time,           \* self.end_time (clock units)
    timer_job,          \* self._timer_job
    auto_submitted,     \* self._auto_submitted
    violation_count,    \* self.violation_count
    is_monitoring,      \* self.is_monitoring
    processing_alert,   \* self._processing_alert
    is_submitting,      \* self._is_submitting
    timer_label,        \* seconds shown by timer_label
    \* ---- Tk ----
    now,                \* time.time(), in clock units
    tickq,              \* pending after(1000, self._tick) callbacks
    cooldownq,          \* pending after(1000, clear _processing_alert) callbacks
    bindq,              \* pending after(2000, bind <FocusOut>) callbacks
    bound,              \* <FocusOut> is bound to on_focus_out
    stack,              \* open modal message boxes, innermost last
    \* ---- history ----
    sess,               \* number of load_exam calls so far: names the session
    \* ---- scoring harness ----
    sc_in,              \* arguments of score_question_partial
    sc_out,             \* its result
    \* ---- DataStore and its backing file (store specifications) ----
    data,               \* self.data, the in-memory document
    file,               \* what self.path holds
    disk,               \* whether open(path, "w") and the write succeed
    last,               \* history: the last store call and how it ended
    nops,               \* history: number of store calls so far
    code_call,          \* the new_unique_code call in progress, if any
    \* ---- ui.py: the earlier ExamTakeFrame ----
    opt_vars            \* self.opt_vars: the options whose check box is ticked

vars == << exams, attempts, frame, current_user, exam, view, index, answers,
           marked_questions, shuffled_indices, started_at, end_time,
           timer_job, auto_submitted, violation_count, is_monitoring,
           processing_alert, is_submitting, timer_label, now, tickq,
           cooldownq, bindq, bound, stack, sess, sc_in, sc_out,
           data, file, disk, last, nops, code_call, opt_vars >>

storeVars == << exams, attempts >>
sessionVars == << exam, view, index, answers, marked_questions,
                  shuffled_indices, started_at, end_time, timer_job,
                  auto_submitted, violation_count, is_monitoring,
                  processing_alert, is_submitting, timer_label >>
tkVars == << now, tickq, cooldownq, bindq, bound, stack >>
scoreVars == << sc_in, sc_out >>
dsVars == << data, file, disk, last, nops, code_call >>

None == "None"                \* Python None in a string-valued field
NoExam == [exam_id |-> "None"]  \* self.exam is None
NoJob == [due |-> 0 - 1]         \* self._timer_job is None
NoLabel == 0 - 1                 \* timer_label still shows "--:--"
NoScore == [earned |-> << 0, 0 >>, missing |-> {}, extra |-> {}]  \* not scored yet (no result has denominator 0)

\* ---- program constants ----
MAX_VIOLATIONS == 3
NumOptions == 4
TickSeconds == 1
CooldownSeconds == 1
BindSeconds == 2

\* ---- bounds ----
Sub == 2            \* clock units per second
MaxTime == 4        \* the clock stops after MaxTime seconds
MaxSessions == 2    \* load_exam calls per behaviour
MaxClick == 1       \* the student clicks options 0 .. MaxClick-1 only
MaxLate == 1        \* a due timer callback runs at most MaxLate units late
MaxTotal == 3       \* review scoring uses points = 10/total, total in 1 .. MaxTotal
MaxOps == 3         \* store calls per behaviour, after the constructor
MaxRuns == 2        \* consecutive load() calls that are told apart
MaxMs == 2          \* the publishing clock stops after MaxMs milliseconds
MaxDraws == 2       \* draws of one new_unique_code call that are told apart

Options == 0 .. (NumOptions - 1)
ClickOpts == 0 .. (MaxClick - 1)
Horizon == MaxTime * Sub

\* ---- helpers ----
Max(a, b) == IF a >= b THEN a ELSE b
Min(a, b) == IF a <= b THEN a ELSE b

\* int(x / Sub) of Python: truncation toward zero
TruncSeconds(units) ==
    IF units >= 0 THEN units \div Sub ELSE 0 - ((0 - units) \div Sub)

\* ---- rationals <<numerator, denominator>>, denominator > 0 (Python floats) ----
RECURSIVE Gcd(_, _)
Gcd(a, b) == IF b = 0 THEN a ELSE Gcd(b, a % b)
Abs(a) == IF a >= 0 THEN a ELSE 0 - a
RatNorm(r) ==
    LET g == Gcd(Abs(r[1]), r[2])
    IN  IF r[1] = 0 THEN << 0, 1 >>
        ELSE IF r[1] > 0 THEN << r[1] \div g, r[2] \div g >>
        ELSE << 0 - (Abs(r[1]) \div g), r[2] \div g >>
RatLe(a, b) == a[1] * b[2] <= b[1] * a[2]
RatEq(a, b) == a[1] * b[2] = b[1] * a[2]
RatMax(a, b) == IF RatLe(b, a) THEN a ELSE b
RatMin(a, b) == IF RatLe(a, b) THEN a ELSE b
RatMul(a, b) == RatNorm(<< a[1] * b[1], a[2] * b[2] >>)
RatAdd(a, b) == RatNorm(<< a[1] * b[2] + b[1] * a[2], a[2] * b[2] >>)
Zero == << 0, 1 >>
One == << 1, 1 >>

\* mutant: wrong selections cost nothing
EarnedRatioNoPenalty(c, w, k) == RatMax(Zero, RatMin(One, RatNorm(<< c, k >>)))

\* mutant: the ratio is not floored at 0
EarnedRatioNoFloor(c, w, k) == RatMin(One, RatNorm(<< c - w, k >>))

\* ---- models.py: score_question_partial ----
EarnedRatio(c, w, k) == RatMax(Zero, RatMin(One, RatNorm(<< c - w, k >>)))

\* mutant: without correct answers the selection is still reported as extra
score_question_partial_degenerate(user_sel, correct, points) ==
    IF correct = {}
    THEN [earned |-> Zero, missing |-> {}, extra |-> user_sel]
    ELSE LET c == Cardinality(user_sel \cap correct)
             w == Cardinality(user_sel \ correct)
             k == Cardinality(correct)
         IN  [earned  |-> RatMul(EarnedRatio(c, w, k), points),
              missing |-> correct \ user_sel,
              extra   |-> user_sel \ correct]

score_question_partial(user_sel, correct, points) ==
    IF correct = {}
    THEN [earned |-> Zero, missing |-> {}, extra |-> {}]
    ELSE LET c == Cardinality(user_sel \cap correct)
             w == Cardinality(user_sel \ correct)
             k == Cardinality(correct)
         IN  [earned  |-> RatMul(EarnedRatio(c, w, k), points),
              missing |-> correct \ user_sel,
              extra   |-> user_sel \ correct]

\* mutant: the loop gives a question its point only for an exact answer
RECURSIVE TotalScoreAllOrNothing(_, _, _)
TotalScoreAllOrNothing(ans, questions, n) ==
    IF n = 0 THEN Zero
    ELSE RatAdd(TotalScoreAllOrNothing(ans, questions, n - 1),
                IF ans[n] = questions[n] THEN One ELSE Zero)

\* mutant: the answers are read in the order the questions were shown
RECURSIVE TotalScoreByDisplay(_, _, _)
TotalScoreByDisplay(ans, questions, n) ==
    IF n = 0 THEN Zero
    ELSE RatAdd(TotalScoreByDisplay(ans, questions, n - 1),
                score_question_partial(ans[shuffled_indices[n]], questions[n],
                                       One).earned)

\* ---- student.py: the scoring loop of _submit_internal ----
RECURSIVE TotalScore(_, _, _)
TotalScore(ans, questions, n) ==
    IF n = 0 THEN Zero
    ELSE RatAdd(TotalScore(ans, questions, n - 1),
                score_question_partial(ans[n], questions[n], One).earned)

\* ---- the published exams of the session specification ----
\* questions are given by their correct_indices; every question has 4 options
ExamMonitored ==
    [exam_id |-> "EX1", access_code |-> "AAAA", password |-> "",
     duration_seconds |-> 4, attempt_limit |-> 0,
     start_ts |-> 0, end_ts |-> MaxTime + 1, enable_monitoring |-> TRUE,
     questions |-> << {1} >>]
ExamPlain ==
    [exam_id |-> "EX2", access_code |-> "BBBB", password |-> "",
     duration_seconds |-> 2, attempt_limit |-> 0,
     start_ts |-> 0, end_ts |-> MaxTime + 1, enable_monitoring |-> FALSE,
     questions |-> << {0, 2} >>]
SessionExams == << ExamMonitored, ExamPlain >>

\* ---- the published exams of the answer specification ----
\* two questions, one single-choice and one multiple-choice, one attempt allowed
ExamTwo ==
    [exam_id |-> "EX3", access_code |-> "AAAA", password |-> "",
     duration_seconds |-> 4, attempt_limit |-> 1,
     start_ts |-> 0, end_ts |-> MaxTime + 1, enable_monitoring |-> FALSE,
     questions |-> << {1}, {0, 2} >>]
\* an exam published with no question at all, attempts unlimited
ExamEmpty ==
    [exam_id |-> "EX4", access_code |-> "BBBB", password |-> "",
     duration_seconds |-> 2, attempt_limit |-> 0,
     start_ts |-> 0, end_ts |-> MaxTime + 1, enable_monitoring |-> TRUE,
     questions |-> << >>]
AnswerExams == << ExamTwo, ExamEmpty >>
Codes == {"AAAA", "BBBB", "ZZZZ"}

\* mutant: each position draws its index independently
ShuffleWithRepeats(n) == [1 .. n -> 1 .. n]

\* all orders random.shuffle can leave a list of n indices in
ShuffleOrders(n) ==
    {p \in [1 .. n -> 1 .. n] : \A i, j \in 1 .. n : p[i] = p[j] => i = j}

\* ---- models.py: DataStore queries ----
get_exam_by_code(code) ==
    LET hits == {i \in 1 .. Len(exams) : exams[i].access_code = code}
    IN  IF hits = {} THEN NoExam
        ELSE exams[CHOOSE i \in hits : \A j \in hits : i <= j]

count_attempts_for_user_exam(username, exam_id) ==
    Cardinality({i \in 1 .. Len(attempts) :
                    attempts[i].username = username /\ attempts[i].exam_id = exam_id})

\* mutant: stop_timer forgets to cancel the scheduled tick
stop_timer_keeps(q) == q

\* ---- student.py: ExamTakeFrame helpers ----
\* stop_timer: after_cancel(self._timer_job) on a queue q of pending ticks
stop_timer_queue(q) == IF timer_job # NoJob THEN q \ {timer_job} ELSE q

\* left = int(self.end_time - time.time())
Left(endT, t) == TruncSeconds(endT - t)

\* mutant: the deadline itself does not count as expired
TickExpiredStrict(left, autoSub) == left < 0 /\ ~autoSub

\* the auto-submit test of _tick
TickExpired(left, autoSub) == left <= 0 /\ ~autoSub

\* the Attempt built by _submit_internal (attempt_id, title, full_name,
\* student_id, submitted_at and time_taken_seconds are left out);
\* sess, reason and shuffle are history: the session, the path that built it
\* and the order its questions were shown in
NewAttempt(reason, startedT) ==
    [sess |-> sess, reason |-> reason, shuffle |-> shuffled_indices,
     exam_id |-> exam.exam_id, code |-> exam.access_code,
     username |-> current_user,
     score |-> TotalScore(answers, exam.questions,
                          Min(Len(answers), Len(exam.questions))),
     total |-> Len(exam.questions),
     started_at |-> startedT,
     answers |-> answers]

\* taking_view.winfo_ismapped()
TakingMapped == view = "taking"

Top == IF stack = << >> THEN "none" ELSE stack[Len(stack)]
Pop == SubSeq(stack, 1, Len(stack) - 1)
NoDialog == stack = << >>

\* the application after construction, whatever exams the store holds
InitApp ==
    /\ attempts = << >>
    /\ current_user = None
    /\ exam = NoExam
    /\ view = "none"
    /\ index = 1
    /\ answers = << >>
    /\ marked_questions = {}
    /\ shuffled_indices = << >>
    /\ started_at = 0
    /\ end_time = 0
    /\ timer_job = NoJob
    /\ auto_submitted = FALSE
    /\ violation_count = 0
    /\ is_monitoring = FALSE
    /\ processing_alert = FALSE
    /\ is_submitting = FALSE
    /\ timer_label = NoLabel
    /\ now = 0
    /\ tickq = {}
    /\ cooldownq = {}
    /\ bindq = {}
    /\ bound = FALSE
    /\ stack = << >>
    /\ sess = 0
    /\ opt_vars = {}
    /\ code_call = [pc |-> "idle"]

\* the session specifications keep the store's exams and attempts in the
\* variables exams and attempts; the document and the file belong to the store
\* specifications
StoreUnused ==
    /\ data = [users |-> << >>, templates |-> << >>, exams |-> << >>,
               attempts |-> << >>]
    /\ file = [kind |-> "absent"]
    /\ disk = "ok"
    /\ last = [op |-> "none", outcome |-> "none", run |-> 0, found |-> "none"]
    /\ nops = 0

InitSession ==
    /\ exams = SessionExams
    /\ frame = "LoginFrame"
    /\ InitApp

Init ==
    /\ InitSession
    /\ StoreUnused
    /\ sc_in = [sel |-> {}, cor |-> {}, pts |-> << 0, 1 >>]
    /\ sc_out = NoScore

\* ---- auth.py: LoginFrame.do_login for the student account ----
Login ==
    /\ frame = "LoginFrame"
    /\ NoDialog
    /\ current_user' = "student"
    /\ frame' = "StudentFrame"
    /\ UNCHANGED << storeVars, sessionVars, tkVars, sess, scoreVars, dsVars, opt_vars >>

\* ---- main.py: App.logout (its button is on the StudentFrame) ----
Logout ==
    /\ frame = "StudentFrame"
    /\ NoDialog
    /\ tickq' = stop_timer_queue(tickq)
    /\ timer_job' = NoJob
    /\ current_user' = None
    /\ frame' = "LoginFrame"
    /\ UNCHANGED << storeVars, exam, view, index, answers, marked_questions,
                    shuffled_indices, started_at, end_time, auto_submitted,
                    violation_count, is_monitoring, processing_alert,
                    is_submitting, timer_label, now, cooldownq, bindq, bound,
                    stack, sess, scoreVars, dsVars, opt_vars >>

\* mutant: the second end_ts itself is already outside the window
OpenRejectedEndExclusive(e) ==
    IF e = NoExam THEN TRUE
    ELSE \/ now \div Sub < e.start_ts
         \/ now \div Sub >= e.end_ts
         \/ /\ e.attempt_limit > 0
            /\ count_attempts_for_user_exam(current_user, e.exam_id) >= e.attempt_limit

\* mutant: the limit is passed only by the attempt after the last allowed one
OpenRejectedOffByOne(e) ==
    IF e = NoExam THEN TRUE
    ELSE \/ now \div Sub < e.start_ts
         \/ now \div Sub > e.end_ts
         \/ /\ e.attempt_limit > 0
            /\ count_attempts_for_user_exam(current_user, e.exam_id) > e.attempt_limit

\* ---- student.py: StudentFrame.open_by_code, then ExamTakeFrame.load_exam ----
\* a rejection shows an error box and returns: nothing changes
OpenRejected(e) ==
    IF e = NoExam THEN TRUE
    ELSE \/ now \div Sub < e.start_ts
         \/ now \div Sub > e.end_ts
         \/ /\ e.attempt_limit > 0
            /\ count_attempts_for_user_exam(current_user, e.exam_id) >= e.attempt_limit

open_by_code(code) ==
    /\ frame = "StudentFrame"
    /\ NoDialog
    /\ LET e == get_exam_by_code(code)
       IN  IF OpenRejected(e)
           THEN UNCHANGED vars
           ELSE /\ tickq' = stop_timer_queue(tickq)
                /\ timer_job' = NoJob
                /\ is_monitoring' = FALSE
                /\ bound' = FALSE
                /\ exam' = e
                /\ index' = 1
                /\ answers' = [i \in 1 .. Len(e.questions) |-> {}]
                /\ marked_questions' = {}
                /\ auto_submitted' = FALSE
                /\ shuffled_indices' \in ShuffleOrders(Len(e.questions))
                /\ view' = "intro"
                /\ frame' = "ExamTakeFrame"
                /\ sess' = sess + 1
                /\ UNCHANGED << storeVars, current_user, started_at, end_time,
                                violation_count, processing_alert, is_submitting,
                                timer_label, now, cooldownq, bindq, stack,
                                scoreVars, dsVars, opt_vars >>

\* the student opens at most MaxSessions exams in a behaviour
OpenByCode(code) ==
    /\ sess < MaxSessions
    /\ open_by_code(code)

\* ---- student.py: render, real_idx = self.shuffled_indices[self.index] ----
\* the lookup raises IndexError when the exam has no question; the handler
\* that called render ends there
RenderRaises == index > Len(shuffled_indices)

\* ---- student.py: ExamTakeFrame.start_exam_now (with its inline _tick) ----
StartExamNow ==
    /\ frame = "ExamTakeFrame"
    /\ view = "intro"
    /\ NoDialog
    /\ LET endT == now + exam.duration_seconds * Sub
           left == Left(endT, now)
           job  == [due |-> now + TickSeconds * Sub, sess |-> sess]
       IN  /\ view' = "taking"
           /\ started_at' = now
           /\ end_time' = endT
           /\ violation_count' = 0
           /\ processing_alert' = FALSE
           /\ is_submitting' = FALSE
           /\ IF RenderRaises
              THEN \* render() raises before _tick() and start_monitoring()
                   UNCHANGED << timer_label, auto_submitted, attempts, stack,
                                timer_job, tickq, is_monitoring, bindq >>
              ELSE IF TickExpired(left, auto_submitted)
              THEN \* _tick submits at once; start_monitoring waits for the box
                   /\ timer_label' = Max(0, left)
                   /\ auto_submitted' = TRUE
                   /\ attempts' = Append(attempts, NewAttempt("timeout", now))
                   /\ stack' = Append(stack, "timeout_start")
                   /\ UNCHANGED << timer_job, tickq, is_monitoring, bindq >>
              ELSE /\ timer_label' = Max(0, left)
                   /\ timer_job' = job
                   /\ tickq' = tickq \cup {job}
                   /\ is_monitoring' = (exam.enable_monitoring \/ is_monitoring)
                   /\ bindq' = IF exam.enable_monitoring
                               THEN bindq \cup {now + BindSeconds * Sub}
                               ELSE bindq
                   /\ UNCHANGED << auto_submitted, attempts, stack >>
    /\ UNCHANGED << exams, frame, current_user, exam, index, answers,
                    marked_questions, shuffled_indices, now, cooldownq, bound,
                    sess, scoreVars, dsVars, opt_vars >>

\* mutant: the answer is stored at the display index
ClickOptionDisplayIndex(i) ==
    /\ frame = "ExamTakeFrame"
    /\ view = "taking"
    /\ NoDialog
    /\ ~RenderRaises
    /\ LET real_idx == index
           is_multiselect == Cardinality(exam.questions[real_idx]) > 1
           selected == IF is_multiselect
                       THEN (answers[real_idx] \ {i}) \cup ({i} \ answers[real_idx])
                       ELSE {i}
       IN  answers' = [answers EXCEPT ![real_idx] = selected]
    /\ UNCHANGED << storeVars, frame, current_user, exam, view, index,
                    marked_questions, shuffled_indices, started_at, end_time,
                    timer_job, auto_submitted, violation_count, is_monitoring,
                    processing_alert, is_submitting, timer_label, tkVars, sess,
                    scoreVars, dsVars, opt_vars >>

\* mutant: the option buttons answer in every view of the screen
ClickOptionAnyView(i) ==
    /\ frame = "ExamTakeFrame"
    /\ NoDialog
    /\ ~RenderRaises
    /\ LET real_idx == shuffled_indices[index]
           is_multiselect == Cardinality(exam.questions[real_idx]) > 1
           selected == IF is_multiselect
                       THEN (answers[real_idx] \ {i}) \cup ({i} \ answers[real_idx])
                       ELSE {i}
       IN  answers' = [answers EXCEPT ![real_idx] = selected]
    /\ UNCHANGED << storeVars, frame, current_user, exam, view, index,
                    marked_questions, shuffled_indices, started_at, end_time,
                    timer_job, auto_submitted, violation_count, is_monitoring,
                    processing_alert, is_submitting, timer_label, tkVars, sess,
                    scoreVars, dsVars, opt_vars >>

\* ---- student.py: _save_single_select / _save_multi_select ----
\* render() keeps radio_var / check_vars equal to answers[real_idx], so a click
\* on option i selects it (radio) or toggles it (check box) and saves at once
ClickOption(i) ==
    /\ frame = "ExamTakeFrame"
    /\ view = "taking"
    /\ NoDialog
    /\ ~RenderRaises
    /\ LET real_idx == shuffled_indices[index]
           is_multiselect == Cardinality(exam.questions[real_idx]) > 1
           selected == IF is_multiselect
                       THEN (answers[real_idx] \ {i}) \cup ({i} \ answers[real_idx])
                       ELSE {i}
       IN  answers' = [answers EXCEPT ![real_idx] = selected]
    /\ UNCHANGED << storeVars, frame, current_user, exam, view, index,
                    marked_questions, shuffled_indices, started_at, end_time,
                    timer_job, auto_submitted, violation_count, is_monitoring,
                    processing_alert, is_submitting, timer_label, tkVars, sess,
                    scoreVars, dsVars, opt_vars >>

\* ---- student.py: next_q, prev_q, jump_to (index is 1-based here) ----
NextQ ==
    /\ frame = "ExamTakeFrame"
    /\ view = "taking"
    /\ NoDialog
    /\ index' = IF index < Len(exam.questions) THEN index + 1 ELSE index
    /\ UNCHANGED << storeVars, frame, current_user, exam, view, answers,
                    marked_questions, shuffled_indices, started_at, end_time,
                    timer_job, auto_submitted, violation_count, is_monitoring,
                    processing_alert, is_submitting, timer_label, tkVars, sess,
                    scoreVars, dsVars, opt_vars >>

PrevQ ==
    /\ frame = "ExamTakeFrame"
    /\ view = "taking"
    /\ NoDialog
    /\ index' = IF index > 1 THEN index - 1 ELSE index
    /\ UNCHANGED << storeVars, frame, current_user, exam, view, answers,
                    marked_questions, shuffled_indices, started_at, end_time,
                    timer_job, auto_submitted, violation_count, is_monitoring,
                    processing_alert, is_submitting, timer_label, tkVars, sess,
                    scoreVars, dsVars, opt_vars >>

\* create_nav_grid makes one button per question
NavButtons == IF exam = NoExam THEN {} ELSE 1 .. Len(exam.questions)

JumpTo(target) ==
    /\ frame = "ExamTakeFrame"
    /\ view = "taking"
    /\ NoDialog
    /\ target \in NavButtons
    /\ index' = target
    /\ UNCHANGED << storeVars, frame, current_user, exam, view, answers,
                    marked_questions, shuffled_indices, started_at, end_time,
                    timer_job, auto_submitted, violation_count, is_monitoring,
                    processing_alert, is_submitting, timer_label, tkVars, sess,
                    scoreVars, dsVars, opt_vars >>

\* mutant: the mark goes to the real index of the question shown
ToggleMarkRealIndex ==
    /\ frame = "ExamTakeFrame"
    /\ view = "taking"
    /\ NoDialog
    /\ ~RenderRaises
    /\ marked_questions' = IF shuffled_indices[index] \in marked_questions
                           THEN marked_questions \ {shuffled_indices[index]}
                           ELSE marked_questions \cup {shuffled_indices[index]}
    /\ UNCHANGED << storeVars, frame, current_user, exam, view, index, answers,
                    shuffled_indices, started_at, end_time, timer_job,
                    auto_submitted, violation_count, is_monitoring,
                    processing_alert, is_submitting, timer_label, tkVars, sess,
                    scoreVars, dsVars, opt_vars >>

\* ---- student.py: toggle_mark (the set changes before render is called) ----
ToggleMark ==
    /\ frame = "ExamTakeFrame"
    /\ view = "taking"
    /\ NoDialog
    /\ marked_questions' = IF index \in marked_questions
                           THEN marked_questions \ {index}
                           ELSE marked_questions \cup {index}
    /\ UNCHANGED << storeVars, frame, current_user, exam, view, index, answers,
                    shuffled_indices, started_at, end_time, timer_job,
                    auto_submitted, violation_count, is_monitoring,
                    processing_alert, is_submitting, timer_label, tkVars, sess,
                    scoreVars, dsVars, opt_vars >>

\* ---- student.py: show_result_screen (stop_timer, stop_monitoring, result view) ----
show_result_screen ==
    /\ tickq' = stop_timer_queue(tickq)
    /\ timer_job' = NoJob
    /\ is_monitoring' = FALSE
    /\ bound' = FALSE
    /\ view' = "result"

\* ---- student.py: _submit_internal up to store.add_attempt ----
add_attempt(reason) == attempts' = Append(attempts, NewAttempt(reason, started_at))

\* ---- student.py: submit(), manual: the confirmation box opens ----
ClickSubmit ==
    /\ frame = "ExamTakeFrame"
    /\ view = "taking"
    /\ NoDialog
    /\ is_submitting' = TRUE
    /\ stack' = Append(stack, "confirm")
    /\ UNCHANGED << storeVars, frame, current_user, exam, view, index, answers,
                    marked_questions, shuffled_indices, started_at, end_time,
                    timer_job, auto_submitted, violation_count, is_monitoring,
                    processing_alert, timer_label, now, tickq, cooldownq, bindq,
                    bound, sess, scoreVars, dsVars, opt_vars >>

\* askyesno answered Yes: _submit_internal(auto=False)
ConfirmYes ==
    /\ Top = "confirm"
    /\ stack' = Pop
    /\ add_attempt("manual")
    /\ show_result_screen
    /\ UNCHANGED << exams, frame, current_user, exam, index, answers,
                    marked_questions, shuffled_indices, started_at, end_time,
                    auto_submitted, violation_count, processing_alert,
                    is_submitting, timer_label, now, cooldownq, bindq, sess,
                    scoreVars, dsVars, opt_vars >>

\* mutant: a declined confirmation leaves _is_submitting set
ConfirmNoKeepsFlag ==
    /\ Top = "confirm"
    /\ stack' = Pop
    /\ UNCHANGED << storeVars, frame, current_user, exam, view, index, answers,
                    marked_questions, shuffled_indices, started_at, end_time,
                    timer_job, auto_submitted, violation_count, is_monitoring,
                    processing_alert, is_submitting, timer_label, now, tickq,
                    cooldownq, bindq, bound, sess, scoreVars, dsVars, opt_vars >>

\* askyesno answered No
ConfirmNo ==
    /\ Top = "confirm"
    /\ stack' = Pop
    /\ is_submitting' = FALSE
    /\ UNCHANGED << storeVars, frame, current_user, exam, view, index, answers,
                    marked_questions, shuffled_indices, started_at, end_time,
                    timer_job, auto_submitted, violation_count, is_monitoring,
                    processing_alert, timer_label, now, tickq, cooldownq, bindq,
                    bound, sess, scoreVars, dsVars, opt_vars >>

\* mutant: on_focus_out without the alert-in-progress test
FocusOutIgnoredNoAlertFlag ==
    \/ ~is_monitoring
    \/ ~TakingMapped
    \/ is_submitting

\* mutant: on_focus_out without the is_monitoring test
FocusOutIgnoredNoMonitorFlag ==
    \/ ~TakingMapped
    \/ is_submitting
    \/ processing_alert

\* ---- student.py: on_focus_out up to the warning box ----
FocusOutIgnored ==
    \/ ~is_monitoring
    \/ ~TakingMapped
    \/ is_submitting
    \/ processing_alert

FocusOut ==
    /\ bound
    /\ IF FocusOutIgnored
       THEN UNCHANGED vars
       ELSE /\ processing_alert' = TRUE
            /\ violation_count' = violation_count + 1
            /\ stack' = Append(stack, "warn")
            /\ UNCHANGED << storeVars, frame, current_user, exam, view, index,
                            answers, marked_questions, shuffled_indices,
                            started_at, end_time, timer_job, auto_submitted,
                            is_monitoring, is_submitting, timer_label, now,
                            tickq, cooldownq, bindq, bound, sess, scoreVars, dsVars, opt_vars >>

\* mutant: the threshold is passed only by the violation after the maximum
ThresholdOffByOne(count) == count > MAX_VIOLATIONS

\* the violation threshold test of on_focus_out
ThresholdReached(count) == count >= MAX_VIOLATIONS

\* the warning box is closed: on_focus_out goes on
CloseWarn ==
    /\ Top = "warn"
    /\ IF ThresholdReached(violation_count)
       THEN \* submit(auto_cheat=True) opens its error box
            /\ is_submitting' = TRUE
            /\ stack' = Append(Pop, "cheat")
            /\ UNCHANGED cooldownq
       ELSE /\ stack' = Pop
            /\ cooldownq' = cooldownq \cup {now + CooldownSeconds * Sub}
            /\ UNCHANGED is_submitting
    /\ UNCHANGED << storeVars, frame, current_user, exam, view, index, answers,
                    marked_questions, shuffled_indices, started_at, end_time,
                    timer_job, auto_submitted, violation_count, is_monitoring,
                    processing_alert, timer_label, now, tickq, bindq, bound,
                    sess, scoreVars, dsVars, opt_vars >>

\* the error box of submit(auto_cheat=True) is closed: _submit_internal(False),
\* then on_focus_out schedules the cool-down
CloseCheat ==
    /\ Top = "cheat"
    /\ stack' = Pop
    /\ add_attempt("cheating")
    /\ show_result_screen
    /\ cooldownq' = cooldownq \cup {now + CooldownSeconds * Sub}
    /\ UNCHANGED << exams, frame, current_user, exam, index, answers,
                    marked_questions, shuffled_indices, started_at, end_time,
                    auto_submitted, violation_count, processing_alert,
                    is_submitting, timer_label, now, bindq, sess, scoreVars, dsVars, opt_vars >>

\* the "time is up" box of _submit_internal(auto=True) is closed
CloseTimeout ==
    /\ Top \in {"timeout", "timeout_start"}
    /\ stack' = Pop
    /\ tickq' = stop_timer_queue(tickq)
    /\ timer_job' = NoJob
    /\ bound' = FALSE
    /\ view' = "result"
    /\ IF Top = "timeout_start" /\ exam.enable_monitoring
       THEN \* start_exam_now resumes: start_monitoring
            /\ is_monitoring' = TRUE
            /\ bindq' = bindq \cup {now + BindSeconds * Sub}
       ELSE /\ is_monitoring' = FALSE
            /\ UNCHANGED bindq
    /\ UNCHANGED << storeVars, frame, current_user, exam, index, answers,
                    marked_questions, shuffled_indices, started_at, end_time,
                    auto_submitted, violation_count, processing_alert,
                    is_submitting, timer_label, now, cooldownq, sess,
                    scoreVars, dsVars, opt_vars >>

\* mutant: back hands the answers in before leaving
BackSubmitting ==
    /\ frame = "ExamTakeFrame"
    /\ NoDialog
    /\ tickq' = stop_timer_queue(tickq)
    /\ timer_job' = NoJob
    /\ is_monitoring' = FALSE
    /\ bound' = FALSE
    /\ frame' = "StudentFrame"
    /\ IF view = "taking" THEN add_attempt("manual") ELSE UNCHANGED attempts
    /\ UNCHANGED << exams, current_user, exam, view, index, answers,
                    marked_questions, shuffled_indices, started_at, end_time,
                    auto_submitted, violation_count, processing_alert,
                    is_submitting, timer_label, now, cooldownq, bindq, stack,
                    sess, scoreVars, dsVars, opt_vars >>

\* ---- student.py: back ----
\* the buttons calling it are on the intro and result views; the method itself
\* is the way out of the screen in every view
Back ==
    /\ frame = "ExamTakeFrame"
    /\ NoDialog
    /\ tickq' = stop_timer_queue(tickq)
    /\ timer_job' = NoJob
    /\ is_monitoring' = FALSE
    /\ bound' = FALSE
    /\ frame' = "StudentFrame"
    /\ UNCHANGED << storeVars, current_user, exam, view, index, answers,
                    marked_questions, shuffled_indices, started_at, end_time,
                    auto_submitted, violation_count, processing_alert,
                    is_submitting, timer_label, now, cooldownq, bindq, stack,
                    sess, scoreVars, dsVars, opt_vars >>

\* ---- student.py: _tick run by the event loop ----
Tick(j) ==
    /\ j \in tickq
    /\ now >= j.due
    /\ IF exam = NoExam \/ ~TakingMapped
       THEN /\ tickq' = tickq \ {j}
            /\ UNCHANGED << timer_label, auto_submitted, attempts, stack,
                            timer_job >>
       ELSE LET left == Left(end_time, now)
                job  == [due |-> now + TickSeconds * Sub, sess |-> sess]
            IN  /\ timer_label' = Max(0, left)
                /\ IF TickExpired(left, auto_submitted)
                   THEN /\ auto_submitted' = TRUE
                        /\ add_attempt("timeout")
                        /\ stack' = Append(stack, "timeout")
                        /\ tickq' = tickq \ {j}
                        /\ UNCHANGED timer_job
                   ELSE /\ timer_job' = job
                        /\ tickq' = (tickq \ {j}) \cup {job}
                        /\ UNCHANGED << auto_submitted, attempts, stack >>
    /\ UNCHANGED << exams, frame, current_user, exam, view, index, answers,
                    marked_questions, shuffled_indices, started_at, end_time,
                    violation_count, is_monitoring, processing_alert,
                    is_submitting, now, cooldownq, bindq, bound, sess,
                    scoreVars, dsVars, opt_vars >>

\* ---- student.py: the cool-down lambda of on_focus_out ----
Cooldown(d) ==
    /\ d \in cooldownq
    /\ now >= d
    /\ cooldownq' = cooldownq \ {d}
    /\ processing_alert' = FALSE
    /\ UNCHANGED << storeVars, frame, current_user, exam, view, index, answers,
                    marked_questions, shuffled_indices, started_at, end_time,
                    timer_job, auto_submitted, violation_count, is_monitoring,
                    is_submitting, timer_label, now, tickq, bindq, bound, stack,
                    sess, scoreVars, dsVars, opt_vars >>

\* ---- student.py: the delayed bind lambda of start_monitoring ----
Bind(d) ==
    /\ d \in bindq
    /\ now >= d
    /\ bindq' = bindq \ {d}
    /\ bound' = TRUE
    /\ UNCHANGED << storeVars, frame, current_user, sessionVars, now, tickq,
                    cooldownq, stack, sess, scoreVars, dsVars, opt_vars >>

\* ---- the clock ----
Dues == {j.due : j \in tickq} \cup cooldownq \cup bindq

AdvanceTime ==
    /\ now < Horizon
    /\ \A d \in Dues : now + 1 <= d + MaxLate
    /\ now' = now + 1
    /\ UNCHANGED << storeVars, frame, current_user, sessionVars, tickq,
                    cooldownq, bindq, bound, stack, sess, scoreVars, dsVars, opt_vars >>

Next ==
    \/ Login
    \/ Logout
    \/ \E code \in Codes : OpenByCode(code)
    \/ StartExamNow
    \/ \E i \in ClickOpts : ClickOption(i)
    \/ ClickSubmit
    \/ ConfirmYes
    \/ ConfirmNo
    \/ FocusOut
    \/ CloseWarn
    \/ CloseCheat
    \/ CloseTimeout
    \/ Back
    \/ \E j \in tickq : Tick(j)
    \/ \E d \in cooldownq : Cooldown(d)
    \/ \E d \in bindq : Bind(d)
    \/ AdvanceTime

Spec == Init /\ [][Next]_vars

\* ---- the timer specification: the unmonitored exam alone, with the
\* buttons of its views, back in every view, the timer and the clock ----
InitTimer ==
    /\ StoreUnused
    /\ exams = << ExamPlain >>
    /\ frame = "LoginFrame"
    /\ InitApp
    /\ sc_in = [sel |-> {}, cor |-> {}, pts |-> << 0, 1 >>]
    /\ sc_out = NoScore

NextTimer ==
    \/ Login
    \/ OpenByCode(ExamPlain.access_code)
    \/ StartExamNow
    \/ ClickSubmit
    \/ ConfirmYes
    \/ ConfirmNo
    \/ CloseTimeout
    \/ Back
    \/ \E j \in tickq : Tick(j)
    \/ AdvanceTime

SpecTimer == InitTimer /\ [][NextTimer]_vars

\* mainloop (and the nested loop of an open message box) runs every _tick
\* that has fallen due, and the clock goes on
SpecTimerFair ==
    SpecTimer /\ WF_vars(\E j \in tickq : Tick(j)) /\ WF_vars(AdvanceTime)

\* ---- the proctoring specification: the monitored exam alone, opened once
\* more than in the session specification, driven by the buttons the views show ----
InitProctor ==
    /\ StoreUnused
    /\ exams = << ExamMonitored >>
    /\ frame = "LoginFrame"
    /\ InitApp
    /\ sc_in = [sel |-> {}, cor |-> {}, pts |-> << 0, 1 >>]
    /\ sc_out = NoScore

OpenMonitored ==
    /\ sess < MaxSessions + 1
    /\ open_by_code(ExamMonitored.access_code)

\* the buttons bound to back are on the intro view and on the result view
BackButton ==
    /\ view \in {"intro", "result"}
    /\ Back

NextProctor ==
    \/ Login
    \/ OpenMonitored
    \/ StartExamNow
    \/ ClickSubmit
    \/ ConfirmYes
    \/ ConfirmNo
    \/ FocusOut
    \/ CloseWarn
    \/ CloseCheat
    \/ CloseTimeout
    \/ BackButton
    \/ \E j \in tickq : Tick(j)
    \/ \E d \in cooldownq : Cooldown(d)
    \/ \E d \in bindq : Bind(d)
    \/ AdvanceTime

SpecProctor == InitProctor /\ [][NextProctor]_vars

\* ---- the answer specification: the same screen on the two-question and the
\* empty exam, with every answering and navigation button; the clock stands
\* still, so no timer falls due ----
InitAns ==
    /\ StoreUnused
    /\ exams = AnswerExams
    /\ frame = "LoginFrame"
    /\ InitApp
    /\ sc_in = [sel |-> {}, cor |-> {}, pts |-> << 0, 1 >>]
    /\ sc_out = NoScore

NextAns ==
    \/ Login
    \/ Logout
    \/ \E code \in Codes : OpenByCode(code)
    \/ StartExamNow
    \/ \E i \in Options : ClickOption(i)
    \/ NextQ
    \/ PrevQ
    \/ \E t \in NavButtons : JumpTo(t)
    \/ ToggleMark
    \/ ClickSubmit
    \/ ConfirmYes
    \/ ConfirmNo
    \/ Back

SpecAns == InitAns /\ [][NextAns]_vars

\* ---- the shuffle specification: the answer specification on the
\* two-question exam without attempt limit, so that it is taken twice ----
InitShuffle ==
    /\ StoreUnused
    /\ exams = << [ExamTwo EXCEPT !.attempt_limit = 0] >>
    /\ frame = "LoginFrame"
    /\ InitApp
    /\ sc_in = [sel |-> {}, cor |-> {}, pts |-> << 0, 1 >>]
    /\ sc_out = NoScore

SpecShuffle == InitShuffle /\ [][NextAns]_vars

\* ---- ui.py: the earlier exam screen (one view, check boxes for every
\* question, no shuffling, no proctoring); the clock stands still ----
\* what no handler of that screen writes
legacyIdle == << exams, current_user, shuffled_indices, violation_count,
                 is_monitoring, processing_alert, is_submitting, now,
                 cooldownq, bindq, bound, scoreVars, dsVars >>

\* _save_current: self.answers[self.index] = self._current_selection()
save_current == [answers EXCEPT ![index] = opt_vars]

\* StudentFrame.open_by_code, then ExamTakeFrame.load_exam (with its render
\* and its first _tick; every exam here lasts a second or more, so that tick
\* finds time left and schedules the next one)
LegacyOpen(code) ==
    /\ frame = "StudentFrame"
    /\ NoDialog
    /\ sess < MaxSessions
    /\ LET e    == get_exam_by_code(code)
           endT == now + e.duration_seconds * Sub
           job  == [due |-> now + TickSeconds * Sub, sess |-> sess + 1]
       IN  IF OpenRejected(e)
           THEN UNCHANGED vars
           ELSE /\ ~TickExpired(Left(endT, now), FALSE)
                /\ exam' = e
                /\ index' = 1
                /\ answers' = [i \in 1 .. Len(e.questions) |-> {}]
                /\ marked_questions' = {}
                /\ started_at' = now
                /\ end_time' = endT
                /\ auto_submitted' = FALSE
                /\ view' = "taking"
                /\ sess' = sess + 1
                /\ IF Len(e.questions) = 0
                   THEN \* render raises IndexError on questions[self.index];
                        \* the exception leaves load_exam and open_by_code
                        /\ tickq' = stop_timer_queue(tickq)
                        /\ timer_job' = NoJob
                        /\ UNCHANGED << frame, timer_label, opt_vars >>
                   ELSE /\ opt_vars' = {}
                        /\ timer_label' = Max(0, Left(endT, now))
                        /\ timer_job' = job
                        /\ tickq' = stop_timer_queue(tickq) \cup {job}
                        /\ frame' = "ExamTakeFrame"
                /\ UNCHANGED << attempts, stack, legacyIdle >>

\* a click on check box i: Tk toggles opt_vars[i]; no handler runs
LegacyCheck(i) ==
    /\ frame = "ExamTakeFrame"
    /\ NoDialog
    /\ opt_vars' = IF i \in opt_vars THEN opt_vars \ {i} ELSE opt_vars \cup {i}
    /\ UNCHANGED << attempts, frame, exam, view, index, answers,
                    marked_questions, started_at, end_time, timer_job,
                    auto_submitted, timer_label, tickq, stack, sess,
                    legacyIdle >>

\* next_q: _save_current, then the move and render when there is a next one
LegacyNext ==
    /\ frame = "ExamTakeFrame"
    /\ NoDialog
    /\ answers' = save_current
    /\ IF index < Len(exam.questions)
       THEN index' = index + 1 /\ opt_vars' = save_current[index + 1]
       ELSE UNCHANGED << index, opt_vars >>
    /\ UNCHANGED << attempts, frame, exam, view, marked_questions, started_at,
                    end_time, timer_job, auto_submitted, timer_label, tickq,
                    stack, sess, legacyIdle >>

\* prev_q: the same towards the first question
LegacyPrev ==
    /\ frame = "ExamTakeFrame"
    /\ NoDialog
    /\ answers' = save_current
    /\ IF index > 1
       THEN index' = index - 1 /\ opt_vars' = save_current[index - 1]
       ELSE UNCHANGED << index, opt_vars >>
    /\ UNCHANGED << attempts, frame, exam, view, marked_questions, started_at,
                    end_time, timer_job, auto_submitted, timer_label, tickq,
                    stack, sess, legacyIdle >>

\* jump_to renders even when the target is the question shown
LegacyJump(target) ==
    /\ frame = "ExamTakeFrame"
    /\ NoDialog
    /\ target \in NavButtons
    /\ answers' = save_current
    /\ index' = target
    /\ opt_vars' = save_current[target]
    /\ UNCHANGED << attempts, frame, exam, view, marked_questions, started_at,
                    end_time, timer_job, auto_submitted, timer_label, tickq,
                    stack, sess, legacyIdle >>

\* toggle_mark: render without _save_current, the boxes go back to the stored
\* answer
LegacyToggleMark ==
    /\ frame = "ExamTakeFrame"
    /\ NoDialog
    /\ marked_questions' = IF index \in marked_questions
                           THEN marked_questions \ {index}
                           ELSE marked_questions \cup {index}
    /\ opt_vars' = answers[index]
    /\ UNCHANGED << attempts, frame, exam, view, index, answers, started_at,
                    end_time, timer_job, auto_submitted, timer_label, tickq,
                    stack, sess, legacyIdle >>

\* submit: _save_current, then the confirmation box
LegacySubmit ==
    /\ frame = "ExamTakeFrame"
    /\ NoDialog
    /\ answers' = save_current
    /\ stack' = Append(stack, "confirm")
    /\ UNCHANGED << attempts, frame, exam, view, index, marked_questions,
                    started_at, end_time, timer_job, auto_submitted,
                    timer_label, tickq, sess, opt_vars, legacyIdle >>

LegacyConfirmNo ==
    /\ Top = "confirm"
    /\ stack' = Pop
    /\ UNCHANGED << attempts, frame, exam, view, index, answers,
                    marked_questions, started_at, end_time, timer_job,
                    auto_submitted, timer_label, tickq, sess, opt_vars,
                    legacyIdle >>

\* _submit_internal(False) up to its showinfo box
LegacyConfirmYes ==
    /\ Top = "confirm"
    /\ add_attempt("manual")
    /\ tickq' = stop_timer_queue(tickq)
    /\ timer_job' = NoJob
    /\ stack' = Append(Pop, "done")
    /\ UNCHANGED << frame, exam, view, index, answers, marked_questions,
                    started_at, end_time, auto_submitted, timer_label, sess,
                    opt_vars, legacyIdle >>

\* the showinfo box is closed: back()
LegacyCloseDone ==
    /\ Top = "done"
    /\ stack' = Pop
    /\ tickq' = stop_timer_queue(tickq)
    /\ timer_job' = NoJob
    /\ frame' = "StudentFrame"
    /\ UNCHANGED << attempts, exam, view, index, answers, marked_questions,
                    started_at, end_time, auto_submitted, timer_label, sess,
                    opt_vars, legacyIdle >>

\* back, from the button of the screen
LegacyBack ==
    /\ frame = "ExamTakeFrame"
    /\ NoDialog
    /\ tickq' = stop_timer_queue(tickq)
    /\ timer_job' = NoJob
    /\ frame' = "StudentFrame"
    /\ UNCHANGED << attempts, exam, view, index, answers, marked_questions,
                    started_at, end_time, auto_submitted, timer_label, stack,
                    sess, opt_vars, legacyIdle >>

InitLegacy ==
    /\ StoreUnused
    /\ exams = AnswerExams
    /\ frame = "LoginFrame"
    /\ InitApp
    /\ sc_in = [sel |-> {}, cor |-> {}, pts |-> << 0, 1 >>]
    /\ sc_out = NoScore

NextLegacy ==
    \/ Login
    \/ \E code \in Codes : LegacyOpen(code)
    \/ \E i \in Options : LegacyCheck(i)
    \/ LegacyNext
    \/ LegacyPrev
    \/ \E t \in NavButtons : LegacyJump(t)
    \/ LegacyToggleMark
    \/ LegacySubmit
    \/ LegacyConfirmNo
    \/ LegacyConfirmYes
    \/ LegacyCloseDone
    \/ LegacyBack

SpecLegacy == InitLegacy /\ [][NextLegacy]_vars

\* ---- quiz_console_app.py: the console program on the same store ----
\* frame holds the menu the console is in
ConsoleLogin ==
    /\ frame = "login_flow"
    /\ current_user' = "student"
    /\ frame' = "student_menu"
    /\ UNCHANGED << storeVars, sessionVars, tkVars, sess, scoreVars, dsVars, opt_vars >>

\* student_menu, choice 0
ConsoleLogout ==
    /\ frame = "student_menu"
    /\ current_user' = None
    /\ frame' = "login_flow"
    /\ UNCHANGED << storeVars, sessionVars, tkVars, sess, scoreVars, dsVars, opt_vars >>

\* the answer lists student_take_exam can collect for exam e: one set of
\* options per question (left empty when skipped or when the time is over)
ConsoleAnswers(e) == [1 .. Len(e.questions) -> SUBSET Options]

\* the Attempt built by student_take_exam
ConsoleAttempt(e, ans) ==
    [sess |-> sess + 1, reason |-> "console",
     exam_id |-> e.exam_id, code |-> e.access_code,
     username |-> current_user,
     score |-> TotalScore(ans, e.questions, Min(Len(ans), Len(e.questions))),
     total |-> Max(1, Len(e.questions)),
     started_at |-> now,
     answers |-> ans]

student_take_exam(e, ans) ==
    /\ attempts' = Append(attempts, ConsoleAttempt(e, ans))
    /\ sess' = sess + 1

\* student_enter_exam: the checks of the code, the window and the attempt
\* limit, then student_take_exam
student_enter_exam(code) ==
    /\ frame = "student_menu"
    /\ sess < MaxSessions
    /\ LET e == get_exam_by_code(code)
       IN  IF OpenRejected(e)
           THEN UNCHANGED vars
           ELSE /\ \E ans \in ConsoleAnswers(e) : student_take_exam(e, ans)
                /\ UNCHANGED << exams, frame, current_user, sessionVars, tkVars,
                                scoreVars, dsVars, opt_vars >>

InitConsole ==
    /\ StoreUnused
    /\ exams = AnswerExams
    /\ frame = "login_flow"
    /\ InitApp
    /\ sc_in = [sel |-> {}, cor |-> {}, pts |-> << 0, 1 >>]
    /\ sc_out = NoScore

NextConsole ==
    \/ ConsoleLogin
    \/ ConsoleLogout
    \/ \E code \in Codes : student_enter_exam(code)

SpecConsole == InitConsole /\ [][NextConsole]_vars

\* ---- the window specification: one exam that opens at second 1 and closes
\* with second 2 and may be taken once, in the window program (exam screen without proctoring) or
\* in the console program, while the clock runs ----
ExamWindow ==
    [exam_id |-> "EX5", access_code |-> "AAAA", password |-> "",
     duration_seconds |-> 1, attempt_limit |-> 1,
     start_ts |-> 1, end_ts |-> 2, enable_monitoring |-> FALSE,
     questions |-> << {1} >>]

\* the program that is started: main.py or quiz_console_app.py
InitWindow ==
    /\ StoreUnused
    /\ exams = << ExamWindow >>
    /\ InitApp
    /\ frame \in {"LoginFrame", "login_flow"}
    /\ sc_in = [sel |-> {}, cor |-> {}, pts |-> << 0, 1 >>]
    /\ sc_out = NoScore

NextWindow ==
    \/ Login
    \/ \E code \in Codes : OpenByCode(code)
    \/ StartExamNow
    \/ ClickSubmit
    \/ ConfirmYes
    \/ ConfirmNo
    \/ CloseTimeout
    \/ BackButton
    \/ \E j \in tickq : Tick(j)
    \/ ConsoleLogin
    \/ ConsoleLogout
    \/ \E code \in Codes : student_enter_exam(code)
    \/ AdvanceTime

SpecWindow == InitWindow /\ [][NextWindow]_vars

\* ---- models.py: DataStore, the in-memory document and its backing file ----
\* a JSON object is a record, a JSON array a sequence; a number that float()
\* made is an exact rational [float |-> << num, den >>]
EmptyDoc == [users |-> << >>, templates |-> << >>, exams |-> << >>,
             attempts |-> << >>]
EmptyDict == [k \in {} |-> 0]

\* what the path holds: nothing, text json.load rejects, a JSON value that is
\* not an object, or a JSON object
Absent == [kind |-> "absent"]
Garbage == [kind |-> "garbage"]
JsonList == [kind |-> "list"]
JsonDict(d) == [kind |-> "dict", value |-> d]

\* dict.setdefault and dict.pop
SetDefault(r, k, v) == IF k \in DOMAIN r THEN r ELSE r @@ (k :> v)
Pop_key(r, k) == [f \in (DOMAIN r) \ {k} |-> r[f]]
Get(r, k, default) == IF k \in DOMAIN r THEN r[k] ELSE default

\* str.strip and str.lower on the role strings that occur
Strip(s) == CASE s = "Teacher " -> "Teacher" [] OTHER -> s
Lower(s) ==
    CASE s = "Admin" -> "admin"
      [] s = "Teacher" -> "teacher"
      [] s = "Student" -> "student"
      [] s = "Boss" -> "boss"
      [] OTHER -> s
ROLES == {"Admin", "Teacher", "Student"}
ROLE_CANON(k, default) ==
    CASE k = "admin" -> "Admin"
      [] k = "teacher" -> "Teacher"
      [] k = "student" -> "Student"
      [] OTHER -> default

\* float(a.get("score", 0)) with its except branch; a stored number is an
\* integer, a string holds a number ("1.5") or not ("abc"), null is None
ToFloat(x) ==
    IF "float" \in DOMAIN x THEN x
    ELSE IF "int" \in DOMAIN x THEN [float |-> << x.int, 1 >>]
    ELSE IF "str" \in DOMAIN x /\ x.str = "1.5" THEN [float |-> << 3, 2 >>]
    ELSE [float |-> << 0, 1 >>]

User(username, password, role, full_name, dob, student_id) ==
    [username |-> username, password |-> password, role |-> role,
     full_name |-> full_name, dob |-> dob, student_id |-> student_id]

\* mutant: the student account is not seeded
seed_default_no_student ==
    [users |-> << User("admin", "admin", "Admin", "", "", ""),
                  User("teacher", "teacher", "Teacher", "Teacher One",
                       "1990-01-01", "") >>,
     templates |-> << >>, exams |-> << >>, attempts |-> << >>]

\* _seed_default
seed_default ==
    [users |-> << User("admin", "admin", "Admin", "", "", ""),
                  User("teacher", "teacher", "Teacher", "Teacher One",
                       "1990-01-01", ""),
                  User("student", "student", "Student", "Student One",
                       "2005-01-01", "SV001") >>,
     templates |-> << >>, exams |-> << >>, attempts |-> << >>]

\* ---- load: the migration of one user, question, template, exam, attempt ----
\* mutant: a role the canonical map does not know is kept as it is spelled
MigrateUserKeepsUnknown(u) ==
    LET u3 == SetDefault(SetDefault(SetDefault(u, "full_name", ""), "dob", ""),
                         "student_id", "")
        role == Strip(Get(u3, "role", ""))
        role_norm == ROLE_CANON(Lower(role), role)
    IN  IF "role" \in DOMAIN u3
        THEN [u3 EXCEPT !["role"] = role_norm]
        ELSE u3 @@ ("role" :> role_norm)

MigrateUser(u) ==
    LET u3 == SetDefault(SetDefault(SetDefault(u, "full_name", ""), "dob", ""),
                         "student_id", "")
        role == Strip(Get(u3, "role", ""))
        role_norm == ROLE_CANON(Lower(role), role)
    IN  IF "role" \in DOMAIN u3
        THEN [u3 EXCEPT !["role"] = IF role_norm \in ROLES THEN role_norm
                                    ELSE "Student"]
        ELSE u3 @@ ("role" :> (IF role_norm \in ROLES THEN role_norm
                               ELSE "Student"))

\* mutant: the old answer is added to the list and the old key is kept
MigrateQuestionAppending(qu) ==
    IF "correct_index" \in DOMAIN qu
    THEN IF "correct_indices" \in DOMAIN qu
         THEN [qu EXCEPT !["correct_indices"] = Append(@, qu.correct_index)]
         ELSE qu @@ ("correct_indices" :> << qu.correct_index >>)
    ELSE qu

MigrateQuestion(qu) ==
    LET q1 == IF "correct_indices" \notin DOMAIN qu /\ "correct_index" \in DOMAIN qu
              THEN qu @@ ("correct_indices" :> << qu.correct_index >>)
              ELSE qu
    IN  Pop_key(q1, "correct_index")

MigrateQuestions(r) ==
    LET r1 == SetDefault(r, "questions", << >>)
    IN  [r1 EXCEPT !["questions"] =
            [i \in 1 .. Len(r1.questions) |-> MigrateQuestion(r1.questions[i])]]

MigrateTemplate(t) == MigrateQuestions(t)

MigrateExam(e) ==
    LET e1 == SetDefault(e, "attempt_limit", 0)
        e2 == SetDefault(e1, "allow_review", FALSE)
        e3 == SetDefault(e2, "password", "")
        e4 == SetDefault(e3, "duration_seconds", 0)
        e5 == SetDefault(e4, "start_ts", 0)
        e6 == SetDefault(e5, "end_ts", 0)
    IN  MigrateQuestions(e6)

MigrateAttempt(a) ==
    LET score == ToFloat(Get(a, "score", [int |-> 0]))
        a1 == IF "score" \in DOMAIN a THEN [a EXCEPT !["score"] = score]
              ELSE a @@ ("score" :> score)
    IN  SetDefault(a1, "answers", << >>)

Migrate(raw) ==
    LET d1 == SetDefault(raw, "users", << >>)
        d2 == SetDefault(d1, "templates", << >>)
        d3 == SetDefault(d2, "exams", << >>)
        d4 == SetDefault(d3, "attempts", << >>)
    IN  [d4 EXCEPT
           !["users"] = [i \in 1 .. Len(d4.users) |-> MigrateUser(d4.users[i])],
           !["templates"] = [i \in 1 .. Len(d4.templates) |->
                                MigrateTemplate(d4.templates[i])],
           !["exams"] = [i \in 1 .. Len(d4.exams) |-> MigrateExam(d4.exams[i])],
           !["attempts"] = [i \in 1 .. Len(d4.attempts) |->
                                MigrateAttempt(d4.attempts[i])]]

\* the document load() leaves in memory for what the path holds
Loaded(f) ==
    IF f.kind \in {"absent", "garbage"} THEN seed_default
    ELSE Migrate(IF f.kind = "dict" THEN f.value ELSE EmptyDict)

\* ---- save: open(path, "w") and json.dump ----
\* a healthy disk gets the whole document; on a read-only one open() raises
\* and the file stays; on a full one the file is truncated and the write raises
SaveRaises == disk # "ok"
Written(d) ==
    CASE disk = "ok" -> JsonDict(d)
      [] disk = "readonly" -> file
      [] disk = "full" -> Garbage

\* ---- the stored files the program is started on ----
OldQuestion == [text |-> "q", options |-> "abcd", correct_index |-> 2]
BothQuestion == [text |-> "q", options |-> "abcd", correct_index |-> 2,
                 correct_indices |-> << 1 >>]
NewQuestion == [text |-> "q", options |-> "abcd", correct_indices |-> << 0, 2 >>]
BareQuestion == [text |-> "q", options |-> "abcd"]

\* a document of an early version: no profile fields, old role spellings,
\* single-answer questions, scores as text or integers
OldDoc ==
    [users |-> << [username |-> "admin", password |-> "admin", role |-> "admin"],
                  [username |-> "teacher", password |-> "t", role |-> "Teacher "],
                  [username |-> "student", password |-> "s", role |-> "Boss"],
                  [username |-> "guest", password |-> "g"] >>,
     templates |-> << [template_id |-> "TP1", title |-> "t", created_by |-> "teacher",
                       questions |-> << OldQuestion, BothQuestion >>],
                      [template_id |-> "TP2", title |-> "t", created_by |-> "teacher"] >>,
     exams |-> << [exam_id |-> "EX1", template_id |-> "TP1", title |-> "t",
                   created_by |-> "teacher", access_code |-> "AAAA",
                   questions |-> << OldQuestion, BareQuestion >>] >>,
     attempts |-> << [attempt_id |-> "AT1", exam_id |-> "EX1",
                      username |-> "student", score |-> [str |-> "1.5"]],
                     [attempt_id |-> "AT2", exam_id |-> "EX1",
                      username |-> "student", score |-> [str |-> "abc"],
                      answers |-> << << 2 >>, << >> >>],
                     [attempt_id |-> "AT3", exam_id |-> "EX1",
                      username |-> "student", score |-> [int |-> 1]],
                     [attempt_id |-> "AT4", exam_id |-> "EX1",
                      username |-> "student"] >>]

\* a document with users only
UsersOnlyDoc == [users |-> << [username |-> "admin", password |-> "admin",
                               role |-> "Admin"] >>]

\* the objects the callers hand to the store
Template(template_id, title) ==
    [template_id |-> template_id, title |-> title, created_by |-> "teacher",
     questions |-> << NewQuestion >>]
template_to_dict(t) ==
    [template_id |-> t.template_id, title |-> t.title,
     created_by |-> t.created_by, questions |-> t.questions]
NewExam ==
    [exam_id |-> "EX2", template_id |-> "TP3", title |-> "t",
     created_by |-> "teacher", access_code |-> "BBBB", password |-> "",
     duration_seconds |-> 60, allow_review |-> FALSE, attempt_limit |-> 1,
     start_ts |-> 0, end_ts |-> 5, questions |-> << NewQuestion >>]
exam_to_dict(e) ==
    [exam_id |-> e.exam_id, template_id |-> e.template_id, title |-> e.title,
     created_by |-> e.created_by, access_code |-> e.access_code,
     password |-> e.password, duration_seconds |-> e.duration_seconds,
     allow_review |-> e.allow_review, attempt_limit |-> e.attempt_limit,
     start_ts |-> e.start_ts, end_ts |-> e.end_ts, questions |-> e.questions]
NewStoreAttempt ==
    [attempt_id |-> "AT9", exam_id |-> "EX2", code |-> "BBBB", title |-> "t",
     username |-> "student", full_name |-> "Student One", student_id |-> "SV001",
     score |-> [float |-> << 1, 2 >>], total |-> 1, started_at |-> 0,
     submitted_at |-> 1, time_taken_seconds |-> 1, answers |-> << << 0 >> >>]

\* a document of the current version
CurrentDoc ==
    [users |-> seed_default.users,
     templates |-> << template_to_dict(Template("TP3", "t")) >>,
     exams |-> << exam_to_dict(NewExam) >>,
     attempts |-> << NewStoreAttempt >>]

StoredFiles ==
    {Absent, Garbage, JsonList, JsonDict(EmptyDict), JsonDict(UsersOnlyDoc),
     JsonDict(OldDoc), JsonDict(CurrentDoc)}

\* ---- the store operations ----
\* DataStore(path) has returned; a constructor whose load raised leaves no store
Constructed == last.op \notin {"__init__", "crash"}

OpCall ==
    /\ Constructed
    /\ nops < MaxOps
    /\ nops' = nops + 1
    /\ UNCHANGED << disk, storeVars, frame, current_user, sessionVars, tkVars,
                    sess, scoreVars, opt_vars, code_call >>

Result(op, outcome) ==
    [op |-> op, outcome |-> outcome, run |-> 0, found |-> "none"]

\* memory is changed to d, then self.save()
Mutate(op, d) ==
    /\ data' = d
    /\ file' = Written(d)
    /\ last' = Result(op, IF SaveRaises THEN "raised" ELSE "ok")

\* the operation returns without touching memory or file
Return(op, outcome) ==
    /\ UNCHANGED << data, file >>
    /\ last' = Result(op, outcome)

UserIndex(username) == {i \in 1 .. Len(data.users) : data.users[i].username = username}
First(S) == CHOOSE i \in S : \A j \in S : i <= j

\* mutant: the role is stored as the caller spelled it
add_user_raw_role(user) ==
    /\ OpCall
    /\ IF UserIndex(user.username) # {}
       THEN Return("add_user", "rejected")
       ELSE Mutate("add_user", [data EXCEPT !.users = Append(@, user)])

\* mutant: the username is not looked up first
add_user_unchecked(user) ==
    /\ OpCall
    /\ LET canon == ROLE_CANON(Lower(user.role), user.role)
           role == IF canon \in ROLES THEN canon ELSE "Student"
       IN  Mutate("add_user",
                  [data EXCEPT !.users = Append(@, [user EXCEPT !.role = role])])

add_user(user) ==
    /\ OpCall
    /\ IF UserIndex(user.username) # {}
       THEN Return("add_user", "rejected")
       ELSE LET canon == ROLE_CANON(Lower(user.role), user.role)
                role == IF canon \in ROLES THEN canon ELSE "Student"
            IN  Mutate("add_user",
                       [data EXCEPT !.users = Append(@, [user EXCEPT !.role = role])])

\* mutant: the new password stays in memory only
update_password_unsaved(username, new_password) ==
    /\ OpCall
    /\ IF UserIndex(username) = {}
       THEN Return("update_password", "rejected")
       ELSE /\ data' = [data EXCEPT !.users[First(UserIndex(username))].password =
                                        new_password]
            /\ file' = file
            /\ last' = Result("update_password", "ok")

update_password(username, new_password) ==
    /\ OpCall
    /\ IF UserIndex(username) = {}
       THEN Return("update_password", "rejected")
       ELSE Mutate("update_password",
                   [data EXCEPT !.users[First(UserIndex(username))].password =
                                    new_password])

update_profile(username, full_name, dob, student_id) ==
    /\ OpCall
    /\ IF UserIndex(username) = {}
       THEN Return("update_profile", "rejected")
       ELSE Mutate("update_profile",
                   [data EXCEPT !.users[First(UserIndex(username))] =
                       [@ EXCEPT !.full_name = full_name, !.dob = dob,
                                 !.student_id = student_id]])

add_template(t) ==
    /\ OpCall
    /\ Mutate("add_template",
              [data EXCEPT !.templates = Append(@, template_to_dict(t))])

TemplateIndex(id) ==
    {i \in 1 .. Len(data.templates) : data.templates[i].template_id = id}

\* mutant: the exams published from the template follow the new questions
update_template_cascading(t) ==
    /\ OpCall
    /\ IF TemplateIndex(t.template_id) = {}
       THEN Return("update_template", "rejected")
       ELSE Mutate("update_template",
                   [data EXCEPT !.templates[First(TemplateIndex(t.template_id))] =
                                    template_to_dict(t),
                                !.exams = [k \in 1 .. Len(data.exams) |->
                                    IF data.exams[k].template_id = t.template_id
                                    THEN [data.exams[k] EXCEPT !.questions = t.questions]
                                    ELSE data.exams[k]]])

update_template(t) ==
    /\ OpCall
    /\ IF TemplateIndex(t.template_id) = {}
       THEN Return("update_template", "rejected")
       ELSE Mutate("update_template",
                   [data EXCEPT !.templates[First(TemplateIndex(t.template_id))] =
                                    template_to_dict(t)])

delete_template(id) ==
    /\ OpCall
    /\ IF TemplateIndex(id) = {}
       THEN Return("delete_template", "rejected")
       ELSE Mutate("delete_template",
                   [data EXCEPT !.templates =
                       SelectSeq(@, LAMBDA t : t.template_id # id)])

add_exam(e) ==
    /\ OpCall
    /\ Mutate("add_exam", [data EXCEPT !.exams = Append(@, exam_to_dict(e))])

delete_exam(id) ==
    /\ OpCall
    /\ IF \A i \in 1 .. Len(data.exams) : data.exams[i].exam_id # id
       THEN Return("delete_exam", "rejected")
       ELSE Mutate("delete_exam",
                   [data EXCEPT !.exams = SelectSeq(@, LAMBDA e : e.exam_id # id)])

store_add_attempt(a) ==
    /\ OpCall
    /\ Mutate("add_attempt", [data EXCEPT !.attempts = Append(@, a)])

delete_attempts_for_exam(id) ==
    /\ OpCall
    /\ IF \A i \in 1 .. Len(data.attempts) : data.attempts[i].exam_id # id
       THEN Return("delete_attempts_for_exam", "ok")
       ELSE Mutate("delete_attempts_for_exam",
                   [data EXCEPT !.attempts = SelectSeq(@, LAMBDA a : a.exam_id # id)])

\* ---- load, called by DataStore.__init__ and by App.reload_data ----
load ==
    /\ last.op # "crash"
    /\ last.op = "__init__" \/ nops < MaxOps
    /\ nops' = IF last.op = "__init__" THEN nops ELSE nops + 1
    /\ data' = Loaded(file)
    /\ file' = Written(Loaded(file))
    /\ last' = IF SaveRaises /\ last.op = "__init__"
               THEN [op |-> "crash", outcome |-> "raised", run |-> 0,
                     found |-> file.kind]
               ELSE [op |-> "load",
                     outcome |-> IF SaveRaises THEN "raised" ELSE "ok",
                     run |-> IF last.op = "load" THEN Min(last.run + 1, MaxRuns)
                             ELSE 1,
                     found |-> file.kind]
    /\ UNCHANGED << disk, storeVars, frame, current_user, sessionVars, tkVars,
                    sess, scoreVars, opt_vars, code_call >>

\* ---- the disk under the store ----
DiskStates == {"ok", "readonly", "full"}
DiskChanges ==
    /\ disk' \in DiskStates \ {disk}
    /\ UNCHANGED << data, file, last, nops, storeVars, frame, current_user,
                    sessionVars, tkVars, sess, scoreVars, opt_vars, code_call >>

NewUsers ==
    {User("student", "x", "teacher", "", "", ""),
     User("bob", "b", "teacher", "Bob", "", ""),
     User("bob", "b", "Boss", "Bob", "", "")}
Usernames == {"student", "ghost"}

InitStore ==
    /\ exams = << >>
    /\ frame = "LoginFrame"
    /\ InitApp
    /\ sc_in = [sel |-> {}, cor |-> {}, pts |-> << 0, 1 >>]
    /\ sc_out = NoScore
    /\ data = EmptyDoc
    /\ file \in StoredFiles
    /\ disk = "ok"
    /\ last = [op |-> "__init__", outcome |-> "none", run |-> 0, found |-> "none"]
    /\ nops = 0

NextStore ==
    \/ load
    \/ \E u \in NewUsers : add_user(u)
    \/ \E u \in Usernames : update_password(u, "pw2")
    \/ \E u \in Usernames : update_profile(u, "N", "2000-01-01", "SV9")
    \/ add_template(Template("TP3", "t"))
    \/ update_template(Template("TP3", "t2"))
    \/ delete_template("TP3")
    \/ add_exam(NewExam)
    \/ delete_exam("EX2")
    \/ store_add_attempt(NewStoreAttempt)
    \/ delete_attempts_for_exam("EX2")

SpecStore == InitStore /\ [][NextStore]_vars

\* the same store on a disk that can become read-only or full
NextStoreFail ==
    \/ NextStore
    \/ DiskChanges

SpecStoreFail == InitStore /\ [][NextStoreFail]_vars

\* ---- the publishing specification: the teacher publishes and deletes exams ----
\* str.upper on the access codes that occur
Upper(s) ==
    CASE s = "aaaa" -> "AAAA"
      [] s = "Cccc" -> "CCCC"
      [] OTHER -> s

\* the codes secrets.choice can spell (upper-case letters and digits)
GeneratedCodes == {"AAAA", "BBBB", "CCCC", "DDDD"}

\* mutant: the stored codes are compared as they are spelled
all_codes_case_sensitive ==
    {Get(data.exams[i], "access_code", "") :
        i \in {j \in 1 .. Len(data.exams) : Get(data.exams[j], "access_code", "") # ""}}

\* _all_codes
all_codes ==
    {Upper(Get(data.exams[i], "access_code", "")) :
        i \in {j \in 1 .. Len(data.exams) : Get(data.exams[j], "access_code", "") # ""}}

\* new_unique_code: the codes the loop can return
new_unique_code == {code \in GeneratedCodes : code \notin all_codes}

\* int(time.time() * 1000) as the f-strings print it; in the publishing
\* specification the clock `now` counts milliseconds
Millis == [ms \in 0 .. (MaxMs + 1) |-> << "100", "101", "102", "103", "104", "105" >>[ms + 1]]

\* new_template_id, new_exam_id: a prefix and the clock in milliseconds
new_template_id == "TP" \o Millis[now]
new_exam_id == "EX" \o Millis[now]

\* new_attempt_id: the same with secrets.randbelow(1000) appended
Randbelow == {0, 1}
new_attempt_id(r) == ("AT" \o Millis[now]) \o (<< "0", "1" >>[r + 1])

\* time passes between two calls (or does not)
ClockMs ==
    /\ Constructed
    /\ now < MaxMs
    /\ now' = now + 1
    /\ UNCHANGED << storeVars, frame, current_user, exam, view, index, answers,
                    marked_questions, shuffled_indices, started_at, end_time,
                    timer_job, auto_submitted, violation_count, is_monitoring,
                    processing_alert, is_submitting, timer_label, tickq,
                    cooldownq, bindq, bound, stack, sess, scoreVars, dsVars,
                    opt_vars >>

\* teacher.py save_template, a new template: new_template_id, then add_template
save_template == add_template(Template(new_template_id, "t"))

\* student.py _submit_internal on the store: new_attempt_id, then add_attempt
submit_internal(r) ==
    store_add_attempt([NewStoreAttempt EXCEPT !.attempt_id = new_attempt_id(r)])

\* _dict_to_template, as get_template returns a stored template
dict_to_template(d) ==
    [template_id |-> Get(d, "template_id", ""), title |-> Get(d, "title", ""),
     created_by |-> Get(d, "created_by", ""),
     questions |-> [i \in 1 .. Len(Get(d, "questions", << >>)) |->
                      [text |-> d.questions[i].text,
                       options |-> d.questions[i].options,
                       correct_indices |->
                           Get(d.questions[i], "correct_indices", << >>)]]]

\* the opening and closing times the teacher types, as parse_dt returns
\* them; text that is no date gives None, written 0 here (the test
\* `not start_ts` takes None and 0 alike)
PublishWindows == {<< 1, 5 >>, << 5, 5 >>, << 5, 1 >>, << 0, 5 >>}

\* publish_exam returns after the error box
WindowRefused(w) == w[1] = 0 \/ w[2] = 0 \/ w[2] <= w[1]

\* the Exam publish_exam builds from the selected template
PublishedExam(tpl, id, code, w) ==
    [exam_id |-> id, template_id |-> tpl.template_id, title |-> tpl.title,
     created_by |-> "teacher", access_code |-> code, password |-> "",
     duration_seconds |-> 60, allow_review |-> FALSE, attempt_limit |-> 0,
     start_ts |-> w[1], end_ts |-> w[2], questions |-> tpl.questions]

\* no new_unique_code call is running: the program takes the next event
Idle == code_call.pc = "idle"

\* publish_exam on row i of the template table, up to its call of
\* new_unique_code: get_template and the test of the two times
publish_exam(i, w) ==
    /\ Constructed
    /\ Idle
    /\ nops < MaxOps
    /\ i \in 1 .. Len(data.templates)
    /\ IF WindowRefused(w)
       THEN UNCHANGED vars
       ELSE /\ code_call' = [pc |-> "loop", row |-> i, window |-> w,
                             code |-> "", tries |-> 0]
            /\ UNCHANGED << storeVars, frame, current_user, sessionVars, tkVars,
                            sess, scoreVars, data, file, disk, last, nops,
                            opt_vars >>

\* mutant: the loop returns its first draw
DrawUnchecked(code) ==
    /\ code_call.pc = "loop"
    /\ code_call' = [code_call EXCEPT !.pc = "done", !.code = code,
                                      !.tries = Min(@ + 1, MaxDraws)]
    /\ UNCHANGED << storeVars, frame, current_user, sessionVars, tkVars, sess,
                    scoreVars, data, file, disk, last, nops, opt_vars >>

\* new_unique_code, one pass of `while True`: a code is drawn and returned
\* unless an exam has it
Draw(code) ==
    /\ code_call.pc = "loop"
    /\ code_call' = [code_call EXCEPT
                        !.pc = IF code \in new_unique_code THEN "done" ELSE "loop",
                        !.code = code,
                        !.tries = Min(@ + 1, MaxDraws)]
    /\ UNCHANGED << storeVars, frame, current_user, sessionVars, tkVars, sess,
                    scoreVars, data, file, disk, last, nops, opt_vars >>

\* publish_exam after new_unique_code has returned: new_exam_id, the Exam,
\* add_exam
publish_exam_add ==
    /\ code_call.pc = "done"
    /\ nops' = nops + 1
    /\ Mutate("add_exam",
              [data EXCEPT !.exams = Append(@, exam_to_dict(
                  PublishedExam(dict_to_template(data.templates[code_call.row]),
                                new_exam_id, code_call.code, code_call.window)))])
    /\ code_call' = [pc |-> "idle"]
    /\ UNCHANGED << disk, storeVars, frame, current_user, sessionVars, tkVars,
                    sess, scoreVars, opt_vars >>

\* the question the teacher puts in place of the one the template held
EditedQuestion == [text |-> "q2", options |-> "efgh", correct_indices |-> << 3 >>]

\* edit_selected_template on row i, the question replaced in the builder,
\* then save_template (overwrite confirmed): update_template
edit_selected_template(i) ==
    /\ i \in 1 .. Len(data.templates)
    /\ update_template([dict_to_template(data.templates[i]) EXCEPT
                           !.created_by = "teacher",
                           !.questions = << EditedQuestion >>])

\* delete_selected_template on row i (confirmed when an exam uses it)
delete_selected_template(i) ==
    /\ i \in 1 .. Len(data.templates)
    /\ delete_template(data.templates[i].template_id)

\* delete_selected_exam, confirmed: the row selected in the exam table
delete_selected_exam(i) ==
    /\ i \in 1 .. Len(data.exams)
    /\ delete_exam(data.exams[i].exam_id)

\* a stored document whose codes were typed by hand: lower case, mixed case,
\* and an exam without a code
CodesDoc ==
    [users |-> seed_default.users,
     templates |-> << template_to_dict(Template("TP3", "t")) >>,
     exams |-> << exam_to_dict([NewExam EXCEPT !.exam_id = "EX1", !.access_code = "aaaa"]),
                  exam_to_dict([NewExam EXCEPT !.exam_id = "EX2", !.access_code = "Cccc"]),
                  exam_to_dict([NewExam EXCEPT !.exam_id = "EX3", !.access_code = ""]) >>,
     attempts |-> << >>]

PublishFiles == {Absent, JsonDict(CurrentDoc), JsonDict(CodesDoc)}

InitPublish ==
    /\ exams = << >>
    /\ frame = "LoginFrame"
    /\ InitApp
    /\ sc_in = [sel |-> {}, cor |-> {}, pts |-> << 0, 1 >>]
    /\ sc_out = NoScore
    /\ data = EmptyDoc
    /\ file \in PublishFiles
    /\ disk = "ok"
    /\ last = [op |-> "__init__", outcome |-> "none", run |-> 0, found |-> "none"]
    /\ nops = 0

NextPublish ==
    \/ Idle /\ load
    \/ ClockMs
    \/ Idle /\ save_template
    \/ \E r \in Randbelow : Idle /\ submit_internal(r)
    \/ \E i \in 1 .. Len(data.templates) : \E w \in PublishWindows : publish_exam(i, w)
    \/ \E code \in GeneratedCodes : Draw(code)
    \/ publish_exam_add
    \/ \E i \in 1 .. Len(data.templates) : Idle /\ edit_selected_template(i)
    \/ \E i \in 1 .. Len(data.templates) : Idle /\ delete_selected_template(i)
    \/ \E i \in 1 .. Len(data.exams) : Idle /\ delete_selected_exam(i)

SpecPublish == InitPublish /\ [][NextPublish]_vars

\* secrets.choice is fair: no code that can be drawn is left out for ever
SpecPublishFair ==
    SpecPublish /\ \A code \in GeneratedCodes : WF_vars(Draw(code))

\* ---- types ----
TypeOK ==
    /\ now \in 0 .. Horizon
    /\ view \in {"none", "intro", "taking", "result"}
    /\ frame \in {"LoginFrame", "StudentFrame", "ExamTakeFrame",
                   "login_flow", "student_menu"}
    /\ violation_count \in Nat
    /\ Len(stack) <= 4

\* ---- history helpers for the claims ----
AttemptsOf(s) == {i \in 1 .. Len(attempts) : attempts[i].sess = s}
AttemptsFor(s, reason) == {i \in AttemptsOf(s) : attempts[i].reason = reason}
TickRuns == \E j \in tickq : Tick(j)
TickInSession == TickRuns /\ exam # NoExam /\ TakingMapped

\* C1: within one exam session at most one Attempt is ever persisted, for
\* every interleaving of manual submit, timer expiry and violation submit.
C1_AtMostOneAttemptPerSession ==
    \A s \in 1 .. sess : Cardinality(AttemptsOf(s)) <= 1

\* C2: a submit that arrives while isSubmitting is true (a manual click, a
\* tick that observes expiry, the violation threshold) is ignored: it persists
\* no Attempt and changes no session state.
SubmitArrives ==
    \/ ClickSubmit
    \/ TickInSession /\ TickExpired(Left(end_time, now), auto_submitted)
    \/ CloseWarn /\ ThresholdReached(violation_count)
C2_SubmitIgnoredWhileSubmitting ==
    [][(is_submitting /\ SubmitArrives) =>
         (attempts' = attempts /\ auto_submitted' = auto_submitted
            /\ view' = view /\ stack' = stack)]_vars

\* C3: with no other submission in the session, the first tick that runs once
\* the clock has reached started_at + duration_seconds persists the session's
\* Attempt as a timeout (not cheating) submit, and no session ever gets a
\* second timeout submit.
C3_TimerBoundary ==
    [][/\ (TickInSession /\ now >= end_time /\ AttemptsOf(sess) = {})
           => attempts' = Append(attempts, NewAttempt("timeout", started_at))
       /\ \A s \in 1 .. sess' : Cardinality(AttemptsFor(s, "timeout"))' <= 1]_vars
C3_Witness ==
    /\ Top = "timeout"
    /\ now >= end_time
    /\ Cardinality(AttemptsOf(sess)) = 1
    /\ AttemptsFor(sess, "timeout") # {}

\* C4: a tick never auto-submits while now < end_time, and the remaining time
\* it displays is floored at 0.
C4_TriggerIsNowAtLeastEndTime ==
    [][TickInSession =>
         /\ timer_label' >= 0
         /\ (now < end_time => attempts' = attempts)]_vars

C5_Witness ==
    /\ view = "result"
    /\ violation_count = MAX_VIOLATIONS
    /\ NoDialog
    /\ Cardinality(AttemptsOf(sess)) = 1
    /\ AttemptsFor(sess, "cheating") # {}

\* C6: a focus loss reported while the alert-in-progress flag is set does not
\* count, and the flag is cleared only by the cool-down timer or by a start.
C6_AlertFlagSuppressesCounting ==
    [][/\ (processing_alert /\ FocusOut) => violation_count' = violation_count
       /\ (processing_alert /\ ~processing_alert')
            => ((\E d \in cooldownq : Cooldown(d)) \/ StartExamNow)]_vars
C6_Witness ==
    /\ processing_alert
    /\ bound /\ is_monitoring /\ TakingMapped /\ ~is_submitting
    /\ NoDialog
    /\ cooldownq # {}
    /\ violation_count = 1

\* C7: a focus loss never counts and never leads to a submit when the exam
\* has no monitoring or when the session is not in progress.
ProctoringOff ==
    \/ exam = NoExam
    \/ ~exam.enable_monitoring
    \/ view # "taking"
C8_BackNeverSubmits ==
    [][/\ Back => (attempts' = attempts /\ tickq' = {} /\ timer_job' = NoJob)
       /\ attempts' # attempts
            => /\ \/ TickInSession /\ attempts'[Len(attempts')].reason = "timeout"
                  \/ StartExamNow /\ attempts'[Len(attempts')].reason = "timeout"
                  \/ CloseCheat /\ attempts'[Len(attempts')].reason = "cheating"
                  \/ ConfirmYes /\ attempts'[Len(attempts')].reason = "manual"
               /\ SubSeq(attempts', 1, Len(attempts)) = attempts
               /\ Len(attempts') = Len(attempts) + 1]_vars
C8_Witness ==
    /\ frame = "StudentFrame"
    /\ view = "taking"
    /\ sess >= 1
    /\ AttemptsOf(sess) = {}
    /\ tickq = {}
    /\ now > started_at

\* C9: a cancelled timer never fires a stale tick: a scheduled tick is always
\* the one _timer_job names, belongs to the session on screen while its taking
\* view is open, and at most one tick is scheduled.
C9_NoStaleTick ==
    /\ Cardinality(tickq) <= 1
    /\ \A j \in tickq :
          /\ j = timer_job
          /\ j.sess = sess
          /\ view = "taking"
          /\ frame = "ExamTakeFrame"
C9_Witness ==
    /\ sess = 2
    /\ view = "intro"
    /\ tickq = {}
    /\ timer_job = NoJob
    /\ AttemptsOf(1) = {}
    /\ now > started_at

\* ---- scoring harness: score_question_partial on every pair of option sets ----
PointsSet == {One, Zero, << 0 - 1, 1 >>} \cup {<< 10, n >> : n \in 1 .. MaxTotal}

InitScore ==
    /\ InitSession
    /\ StoreUnused
    /\ sc_in \in [sel : SUBSET Options, cor : SUBSET Options, pts : PointsSet]
    /\ sc_out = NoScore

Score ==
    /\ sc_out = NoScore
    /\ sc_out' = score_question_partial(sc_in.sel, sc_in.cor, sc_in.pts)
    /\ UNCHANGED << storeVars, frame, current_user, sessionVars, tkVars, sess,
                    sc_in, dsVars, opt_vars >>

NextScore == Score

SpecScore == InitScore /\ [][NextScore]_vars

\* C10: for correct non-empty, earned = clamp((c - w) / k, 0, 1) * points with
\* c = |selected & correct|, w = |selected - correct|, k = |correct|, and
\* missing = correct - selected, extra = selected - correct.
ClampedRatio(c, w, k) ==
    IF c - w <= 0 THEN << 0, 1 >>
    ELSE IF c - w >= k THEN << 1, 1 >>
    ELSE << c - w, k >>
C10_PartialCreditFormula ==
    (sc_out # NoScore /\ sc_in.cor # {}) =>
        LET c == Cardinality(sc_in.sel \cap sc_in.cor)
            w == Cardinality(sc_in.sel \ sc_in.cor)
            k == Cardinality(sc_in.cor)
            r == ClampedRatio(c, w, k)
        IN  /\ sc_out.earned[2] > 0
            /\ sc_out.earned[1] * (r[2] * sc_in.pts[2])
                 = (r[1] * sc_in.pts[1]) * sc_out.earned[2]
            /\ sc_out.missing = {x \in sc_in.cor : x \notin sc_in.sel}
            /\ sc_out.extra = {x \in sc_in.sel : x \notin sc_in.cor}
C10_Witness ==
    /\ sc_out # NoScore
    /\ sc_in.sel = {0, 1, 3}
    /\ sc_in.cor = {0, 1, 2}
    /\ sc_in.pts = << 10, 3 >>
    /\ sc_out.earned = << 10, 9 >>
    /\ sc_out.missing = {2}
    /\ sc_out.extra = {3}

\* C11: for correct non-empty and points > 0: 0 <= earned <= points, and
\* earned = points exactly when selected = correct.
C11_EarnedBounds ==
    (sc_out # NoScore /\ sc_in.cor # {} /\ sc_in.pts[1] > 0) =>
        /\ RatLe(Zero, sc_out.earned)
        /\ RatLe(sc_out.earned, sc_in.pts)
        /\ RatEq(sc_out.earned, sc_in.pts) <=> (sc_in.sel = sc_in.cor)
C11_Witness ==
    /\ sc_out # NoScore
    /\ sc_in.sel = {0, 2}
    /\ sc_in.cor = {0, 2}
    /\ sc_in.pts = << 10, 2 >>
    /\ sc_out.earned = << 5, 1 >>

\* C12: when correct is empty the result is (0, {}, {}) for every selection
\* and every points value.
C12_EmptyCorrect ==
    (sc_out # NoScore /\ sc_in.cor = {}) =>
        /\ sc_out.earned = << 0, 1 >>
        /\ sc_out.missing = {}
        /\ sc_out.extra = {}
C12_Witness ==
    /\ sc_out # NoScore
    /\ sc_in.cor = {}
    /\ sc_in.sel = {1, 3}
    /\ sc_in.pts = << 10, 3 >>
    /\ sc_out.earned = << 0, 1 >>

\* ---- claims on the answer specification ----
\* the sum of the earned points over a set of real question indices
RECURSIVE SumEarned(_, _, _)
SumEarned(ans, questions, idx) ==
    IF idx = {} THEN Zero
    ELSE LET i == CHOOSE x \in idx : TRUE
         IN  RatAdd(score_question_partial(ans[i], questions[i], One).earned,
                    SumEarned(ans, questions, idx \ {i}))
LastAttempt == attempts[Len(attempts)]

\* C13: the Attempt persisted by a confirmed submit carries the answers the
\* session holds at that moment, and its score is the sum, over every real
\* question index, of the points score_question_partial earns for that answer
\* with 1 point per question (correct sets {1} and {0,2} answered {1} and {0}
\* give 3/2 of total 2).
C13_ScoreIsSumOfEarned ==
    [][ConfirmYes =>
         /\ Len(attempts') = Len(attempts) + 1
         /\ LastAttempt'.answers = answers
         /\ RatEq(LastAttempt'.score,
                  SumEarned(answers, exam.questions, 1 .. Len(exam.questions)))]_vars
C13_Witness ==
    /\ attempts # << >>
    /\ LastAttempt.reason = "manual"
    /\ LastAttempt.exam_id = "EX3"
    /\ LastAttempt.answers = << {1}, {0} >>
    /\ LastAttempt.score = << 3, 2 >>
    /\ LastAttempt.total = 2
    /\ view = "result"

\* the published exam an Attempt belongs to
ExamById(id) == exams[CHOOSE i \in 1 .. Len(exams) : exams[i].exam_id = id]

\* C14: every persisted Attempt has one answer per question of its exam, a
\* total equal to the number of questions, and a score between 0 and that
\* total; an exam with no question gives answers of length 0 and total 0.
C14_AttemptShape ==
    \A i \in 1 .. Len(attempts) :
        LET a  == attempts[i]
            qs == ExamById(a.exam_id).questions
        IN  /\ Len(a.answers) = Len(qs)
            /\ a.total = Len(qs)
            /\ RatLe(Zero, a.score)
            /\ RatLe(a.score, << a.total, 1 >>)

\* C15: while an exam is loaded, shuffled_indices has one entry per question
\* and holds every real index exactly once; only loading an exam changes it
\* (answering, marking, navigating, submitting and leaving do not).
IsPermutation(p, n) ==
    /\ Len(p) = n
    /\ \A r \in 1 .. n : Cardinality({d \in 1 .. n : p[d] = r}) = 1
C15_ShuffleIsPermutation ==
    [][/\ (exam' # NoExam => IsPermutation(shuffled_indices', Len(exam'.questions)))
       /\ (shuffled_indices' # shuffled_indices => \E code \in Codes : OpenByCode(code))]_vars
C15_Witness ==
    /\ exam = ExamTwo
    /\ shuffled_indices = << 2, 1 >>
    /\ view = "result"
    /\ marked_questions # {}
    /\ index = 2
    /\ answers[1] # {} /\ answers[2] # {}

\* C16: once the student has attempt_limit = L > 0 Attempts of an exam, every
\* request to open it is rejected (nothing changes, no session is loaded) and
\* no exam is ever started with the limit already used up; an exam with
\* attempt_limit = 0 inside its window is opened whatever the number of
\* Attempts.
Used(e) == count_attempts_for_user_exam(current_user, e.exam_id)
InWindow(e) == e.start_ts <= now \div Sub /\ now \div Sub <= e.end_ts
C16_AttemptLimit ==
    [][/\ \A code \in Codes :
            LET e == get_exam_by_code(code)
            IN  (e # NoExam /\ OpenByCode(code)) =>
                  IF e.attempt_limit > 0 /\ Used(e) >= e.attempt_limit
                  THEN UNCHANGED vars
                  ELSE (e.attempt_limit = 0 /\ InWindow(e)) =>
                          (exam' = e /\ frame' = "ExamTakeFrame" /\ sess' = sess + 1)
       /\ (StartExamNow /\ exam.attempt_limit > 0)
            => Used(exam) < exam.attempt_limit]_vars
C16_Witness ==
    /\ frame = "StudentFrame"
    /\ NoDialog
    /\ sess < MaxSessions
    /\ ExamTwo.attempt_limit > 0
    /\ Used(ExamTwo) >= ExamTwo.attempt_limit
    /\ Used(ExamEmpty) = 0
    /\ get_exam_by_code("AAAA") = ExamTwo

\* ---- claims on the store specifications ----
\* C17: on a working disk, whenever a store call has returned (accepted,
\* rejected or with nothing to do), the backing file holds exactly the
\* in-memory document.
C17_MutationsAreDurable ==
    (Constructed /\ last.outcome \in {"ok", "rejected"}) => file = JsonDict(data)
C17_Witness ==
    /\ last.op = "add_attempt"
    /\ last.outcome = "ok"
    /\ nops = MaxOps
    /\ Len(data.users) = 4
    /\ Len(data.exams) = 1
    /\ Len(data.attempts) = 1
    /\ file = JsonDict(data)

\* C18: a mutating call whose write fails leaves memory and file together on
\* the old document (or together on the new one), never on different or
\* partial documents.
C18_AllOrNothing ==
    [][(nops' # nops /\ last'.op # "load" /\ last'.outcome = "raised") =>
          \/ data' = data /\ file' = file
          \/ file' = JsonDict(data')]_vars

\* C19: load() on an absent or unparsable file returns normally with exactly
\* the accounts admin/admin/Admin, teacher/teacher/Teacher and
\* student/student/Student, no template, exam or attempt, and the file holds
\* that document.
Accounts(d) ==
    {<< d.users[i].username, d.users[i].password, d.users[i].role >> :
        i \in 1 .. Len(d.users)}
C19_SeedOnAbsentOrUnparsable ==
    [][(load /\ file.kind \in {"absent", "garbage"}) =>
          /\ last'.op = "load"
          /\ last'.outcome = "ok"
          /\ Len(data'.users) = 3
          /\ Accounts(data') = {<< "admin", "admin", "Admin" >>,
                                << "teacher", "teacher", "Teacher" >>,
                                << "student", "student", "Student" >>}
          /\ data'.templates = << >>
          /\ data'.exams = << >>
          /\ data'.attempts = << >>
          /\ DOMAIN data' = {"users", "templates", "exams", "attempts"}
          /\ file' = JsonDict(data')]_vars
C19_Witness ==
    /\ last.op = "load"
    /\ last.found = "garbage"
    /\ last.outcome = "ok"
    /\ nops = 0
    /\ Len(data.users) = 3
    /\ file.kind = "dict"

\* C20: a load() that follows a load() which wrote the file changes neither
\* the in-memory document nor the file, whatever stored document the first
\* one migrated.
C20_MigrationIsIdempotent ==
    [][(load /\ last.op = "load" /\ last.outcome = "ok") =>
          (data' = data /\ file' = file)]_vars
C20_Witness ==
    /\ last.op = "load"
    /\ last.run = 2
    /\ last.found = "dict"
    /\ nops = 1
    /\ Len(data.users) = 4
    /\ data.users[2].role = "Teacher"
    /\ data.users[3].role = "Student"
    /\ data.users[4].role = "Student"
    /\ data.templates[1].questions[1].correct_indices = << 2 >>
    /\ data.templates[1].questions[2].correct_indices = << 1 >>
    /\ "correct_index" \notin DOMAIN data.templates[1].questions[2]
    /\ data.templates[2].questions = << >>
    /\ DOMAIN data.exams[1].questions[2] = {"text", "options"}
    /\ data.attempts[1].score = [float |-> << 3, 2 >>]
    /\ data.attempts[2].score = [float |-> << 0, 1 >>]
    /\ data.attempts[3].score = [float |-> << 1, 1 >>]
    /\ data.attempts[4].answers = << >>
    /\ file = JsonDict(data)

\* C21: a load() that follows a store call which left the document saved
\* (an accepted mutation, a rejected call, an earlier load) reads back, after
\* its migration pass, exactly the document that was in memory, whatever
\* calls built that document.
C21_SaveLoadRoundTrip ==
    [][(load /\ Constructed /\ last.op # "load" /\ last.outcome \in {"ok", "rejected"})
          => data' = data]_vars
C21_Witness ==
    /\ last.op = "load"
    /\ last.run = 1
    /\ last.found = "dict"
    /\ last.outcome = "ok"
    /\ nops = MaxOps
    /\ Len(data.users) = 4
    /\ data.users[4].username = "bob"
    /\ data.users[4].role = "Teacher"
    /\ Len(data.exams) = 1
    /\ data.exams[1] = exam_to_dict(NewExam)

\* C23: add_user with a username the store already holds returns False and
\* changes neither memory nor file; in every store that started with distinct
\* usernames (the seeded one among them) the usernames stay pairwise distinct.
DistinctUsernames(d) ==
    \A i, j \in 1 .. Len(d.users) :
        d.users[i].username = d.users[j].username => i = j
C23_DuplicateUsernameRejected ==
    [][/\ \A u \in NewUsers :
            (add_user(u) /\ UserIndex(u.username) # {}) =>
                /\ last'.outcome = "rejected"
                /\ data' = data
                /\ file' = file
       /\ Constructed' => DistinctUsernames(data')]_vars
C23_Witness ==
    /\ last.op = "add_user"
    /\ last.outcome = "rejected"
    /\ nops = 2
    /\ Len(data.users) = 4
    /\ data.users[3].username = "student"
    /\ data.users[4].username = "bob"
    /\ file = JsonDict(data)

\* ---- claims on the publishing specification ----
\* two access codes are the same when they are equal in upper case
StoredCode(e) == Get(e, "access_code", "")
CodeTaken(d, code) ==
    \E i \in 1 .. Len(d.exams) : Upper(StoredCode(d.exams[i])) = Upper(code)
DistinctCodes(d) ==
    \A i, j \in 1 .. Len(d.exams) :
        Upper(StoredCode(d.exams[i])) = Upper(StoredCode(d.exams[j])) => i = j

\* C22: the code new_unique_code returns to publish_exam differs, ignoring
\* case, from the access code of every stored exam, and after every sequence
\* of publish and delete-exam steps on a store whose codes were distinct no
\* two stored exams have access codes that are equal ignoring case.
C22_UniqueAccessCodes ==
    [][/\ publish_exam_add => ~CodeTaken(data, code_call.code)
       /\ Constructed' => DistinctCodes(data')]_vars
C22_Witness ==
    /\ last.op = "add_exam"
    /\ nops = MaxOps
    /\ Len(data.exams) = 4
    /\ data.exams[1].access_code = "aaaa"
    /\ data.exams[2].access_code = "Cccc"
    /\ data.exams[4].access_code \in {"BBBB", "DDDD"}
    /\ data.exams[4].exam_id = new_exam_id
    /\ new_unique_code # {}

\* ---- claims on the session states ----
\* the state of the session on screen: Submitted from the moment its Attempt
\* is persisted
Phase ==
    IF exam = NoExam THEN "None"
    ELSE IF view = "intro" THEN "Intro"
    ELSE IF view = "taking" /\ AttemptsOf(sess) = {} THEN "InProgress"
    ELSE "Submitted"

\* C24: a session moves Intro -> InProgress -> Submitted only: a Submitted
\* session stays Submitted and persists no further Attempt, an InProgress
\* session never returns to Intro, InProgress is entered only by start from
\* Intro, and only loading an exam begins a new session, in Intro.
C24_SessionStatesMoveForward ==
    [][/\ (sess' = sess /\ Phase = "Submitted")
            => (Phase' = "Submitted" /\ attempts' = attempts)
       /\ (sess' = sess /\ Phase = "InProgress")
            => Phase' \in {"InProgress", "Submitted"}
       /\ (Phase' = "InProgress" /\ Phase # "InProgress")
            => (Phase = "Intro" /\ StartExamNow /\ sess' = sess)
       /\ sess' # sess => Phase' = "Intro"]_vars

\* C25: a click on option i of the question shown at display index d stores
\* the selection at answers[shuffled_indices[d]] (the option alone for a
\* single-choice question, whatever was stored before; the check boxes after
\* the toggle for a multiple-choice one) and changes no other answer, nor the
\* marks, the permutation, the pointer, the deadline or the violation counter.
C25_AnswerReplacesRealIndex ==
    [][\A i \in Options :
          ClickOption(i) =>
              LET r == shuffled_indices[index]
                  sel == IF Cardinality(exam.questions[r]) > 1
                         THEN IF i \in answers[r] THEN answers[r] \ {i}
                              ELSE answers[r] \cup {i}
                         ELSE {i}
              IN  /\ Len(answers') = Len(answers)
                  /\ answers'[r] = sel
                  /\ \A k \in 1 .. Len(answers) : k # r => answers'[k] = answers[k]
                  /\ UNCHANGED << marked_questions, shuffled_indices, index,
                                  started_at, end_time, violation_count >>]_vars
C25_Witness ==
    /\ exam = ExamTwo
    /\ view = "taking"
    /\ shuffled_indices = << 2, 1 >>
    /\ index = 2
    /\ answers = << {3}, {0, 1} >>
    /\ marked_questions = {1}

\* C26: the answers of the session change only while it is InProgress (not
\* in Intro, not once its Attempt is persisted), and the answers of a
\* persisted Attempt never change.
C26_AnswerOnlyInProgress ==
    [][/\ (sess' = sess /\ Phase # "InProgress") => answers' = answers
       /\ Len(attempts') >= Len(attempts)
       /\ \A k \in 1 .. Len(attempts) : attempts'[k].answers = attempts[k].answers]_vars
C26_Witness ==
    /\ sess = 2
    /\ view = "intro"
    /\ NoDialog
    /\ exam = ExamMonitored
    /\ answers = << {} >>
    /\ Len(attempts) = 1
    /\ attempts[1].sess = 1
    /\ attempts[1].exam_id = "EX1"
    /\ attempts[1].answers = << {0} >>

\* the score a submit would persist for answers ans of exam e
ScoreOf(ans, e) ==
    TotalScore(ans, e.questions, Min(Len(ans), Len(e.questions)))

\* C28: toggle_mark flips the display index on screen in the marked set and
\* changes nothing else; next, previous and jump change the pointer only, and
\* only to a display index of the exam; none of them changes an answer, the
\* permutation, the deadline, the violation counter or the score a submit
\* would persist.
Navigate == NextQ \/ PrevQ \/ \E t \in NavButtons : JumpTo(t)
C28_MarkAndNavigateAreBookkeeping ==
    [][/\ ToggleMark =>
            /\ marked_questions' = IF index \in marked_questions
                                   THEN marked_questions \ {index}
                                   ELSE marked_questions \cup {index}
            /\ index' = index
       /\ Navigate =>
            /\ marked_questions' = marked_questions
            /\ index' = index \/ index' \in 1 .. Len(exam.questions)
       /\ (ToggleMark \/ Navigate) =>
            /\ UNCHANGED << answers, shuffled_indices, started_at, end_time,
                            violation_count, attempts, exam >>
            /\ ScoreOf(answers', exam') = ScoreOf(answers, exam)]_vars
C28_Witness ==
    /\ exam = ExamTwo
    /\ view = "taking"
    /\ shuffled_indices = << 2, 1 >>
    /\ index = 1
    /\ marked_questions = {2}
    /\ answers = << {1}, {} >>

\* C30: declining the confirmation of a manual submit persists no Attempt,
\* clears _is_submitting and changes nothing else of the session (view,
\* answers, marks, deadline, scheduled tick, violation counter); a session
\* that was InProgress stays InProgress with the tick it had scheduled, so a
\* later submit, timeout or violation is handled as before.
C30_DeclinedSubmitChangesNothing ==
    [][ConfirmNo =>
          /\ attempts' = attempts
          /\ ~is_submitting'
          /\ UNCHANGED << view, frame, exam, answers, marked_questions, index,
                          shuffled_indices, started_at, end_time, timer_job,
                          tickq, violation_count, auto_submitted,
                          is_monitoring, bound, processing_alert >>
          /\ Phase = "InProgress" => Phase' = "InProgress"]_vars
C30_Witness ==
    /\ Top = "confirm"
    /\ is_submitting
    /\ Phase = "InProgress"
    /\ exam = ExamMonitored
    /\ answers = << {0} >>
    /\ violation_count = 1
    /\ now > started_at
    /\ tickq = {timer_job}

\* a callback that was scheduled before the session on screen was started:
\* the session has not started yet, or the callback is due earlier than one
\* scheduled at or after the start can be
OnScreen == frame = "ExamTakeFrame" /\ exam # NoExam
StaleCooldown(d) ==
    /\ OnScreen
    /\ \/ view = "intro"
       \/ view = "taking" /\ d < started_at + CooldownSeconds * Sub
StaleBind(d) ==
    /\ OnScreen
    /\ \/ view = "intro"
       \/ view = "taking" /\ d < started_at + BindSeconds * Sub

\* C29: a started session begins clean (no answer, no mark, violation counter
\* 0, the submitting and alert flags off, auto-submitted set only by an
\* expiry at the start itself, end_time = started_at + duration_seconds),
\* and no cool-down or bind callback scheduled before the session changes the
\* alert flag or the <FocusOut> binding of the new session.
C29_NoLeakBetweenSessions ==
    [][/\ StartExamNow =>
            /\ \A k \in 1 .. Len(answers') : answers'[k] = {}
            /\ marked_questions' = {}
            /\ violation_count' = 0
            /\ ~is_submitting'
            /\ ~processing_alert'
            /\ end_time' = started_at' + exam'.duration_seconds * Sub
            /\ auto_submitted' => Len(attempts') = Len(attempts) + 1
       /\ \A d \in cooldownq :
            (Cooldown(d) /\ StaleCooldown(d)) => processing_alert' = processing_alert
       /\ \A d \in bindq :
            (Bind(d) /\ StaleBind(d)) => bound' = bound]_vars

\* C27: in every state of a session the answer stored for a question with
\* exactly one correct index has at most one element, and the answer stored
\* for a question with several correct indices is a set of option indices
\* 0 .. 3.
C27_SelectionShape ==
    exam # NoExam =>
        \A r \in 1 .. Min(Len(answers), Len(exam.questions)) :
            /\ Cardinality(exam.questions[r]) = 1 => Cardinality(answers[r]) <= 1
            /\ Cardinality(exam.questions[r]) > 1 => answers[r] \subseteq Options

\* C31: every stored user carries a role, and it is Admin, Teacher or
\* Student: load() turns the old spellings of a stored document into the
\* canonical ones (admin -> Admin, "Teacher " -> Teacher) and an unknown or
\* missing role into Student; add_user stores teacher as Teacher and Boss as
\* Student.
RolesOf(d) == [i \in 1 .. Len(d.users) |-> Get(d.users[i], "role", "(none)")]
C31_RolesAreCanonical ==
    [][/\ \A i \in 1 .. Len(data'.users) : RolesOf(data')[i] \in {"Admin", "Teacher", "Student"}
       /\ \A u \in NewUsers :
            (add_user(u) /\ last'.outcome # "rejected") =>
                RolesOf(data')[Len(data'.users)] =
                    (IF u.role = "teacher" THEN "Teacher" ELSE "Student")
       /\ (load /\ file = JsonDict(OldDoc)) =>
            RolesOf(data') = << "Admin", "Teacher", "Student", "Student" >>]_vars
C31_Witness ==
    /\ last.op = "add_user"
    /\ last.outcome = "ok"
    /\ Len(data.users) = 5
    /\ RolesOf(data) = << "Admin", "Teacher", "Student", "Student", "Student" >>
    /\ data.users[5].username = "bob"
    /\ data.users[4].username = "guest"

\* C32: identifiers are unique within their kind: after every sequence of
\* template saves, exam publishes and attempt submissions, several of them
\* within one millisecond included, no two stored templates share a
\* template_id, no two stored exams an exam_id, no two stored attempts an
\* attempt_id.
DistinctBy(seq, key) ==
    \A i, j \in 1 .. Len(seq) : seq[i][key] = seq[j][key] => i = j
C32_IdsUnique ==
    Constructed =>
        /\ DistinctBy(data.templates, "template_id")
        /\ DistinctBy(data.exams, "exam_id")
        /\ DistinctBy(data.attempts, "attempt_id")

\* ---- claims on the window specification ----
\* the whole second the clock reads, int(time.time())
Second == now \div Sub
LimitReached(e) ==
    e.attempt_limit > 0 /\ Used(e) >= e.attempt_limit

\* C33: a request to open a stored exam passes the time test exactly when
\* start_ts <= now <= end_ts on the whole-second clock, both ends included;
\* a request before start_ts or after end_ts changes no variable, in the
\* window program and in the console program, and a request inside the
\* window (attempts left) loads the session or takes the exam.
C33_WindowInclusive ==
    /\ [](\A i \in 1 .. Len(exams) :
            OpenRejected(exams[i]) <=>
                \/ Second < exams[i].start_ts
                \/ Second > exams[i].end_ts
                \/ LimitReached(exams[i]))
    /\ [][\A code \in Codes :
            LET e == get_exam_by_code(code)
                inside == e.start_ts <= Second /\ Second <= e.end_ts
            IN  e # NoExam =>
                  /\ ((OpenByCode(code) \/ student_enter_exam(code)) /\ ~inside)
                        => UNCHANGED vars
                  /\ (OpenByCode(code) /\ inside /\ ~LimitReached(e))
                        => (exam' = e /\ view' = "intro" /\ sess' = sess + 1)
                  /\ (student_enter_exam(code) /\ inside /\ ~LimitReached(e))
                        => Len(attempts') = Len(attempts) + 1]_vars
\* the console took the exam in the last instant of second end_ts
C33_Witness ==
    /\ Len(attempts) = 1
    /\ attempts[1].reason = "console"
    /\ attempts[1].exam_id = ExamWindow.exam_id
    /\ attempts[1].started_at = ExamWindow.end_ts * Sub + (Sub - 1)
    /\ now = Horizon

\* C38: every persisted Attempt was started inside the window of its exam:
\* start_ts <= started_at <= end_ts (on the whole-second clock).
C38_StartedInsideWindow ==
    \A i \in 1 .. Len(attempts) :
        LET e == ExamById(attempts[i].exam_id)
        IN  /\ e.start_ts <= attempts[i].started_at \div Sub
            /\ attempts[i].started_at \div Sub <= e.end_ts

\* C34: a published exam keeps the questions it was published with: every
\* update_template and delete_template, on the template it came from or on
\* any other, leaves the stored exams (text, options and correct_indices of
\* every question) as they were, in memory and in the file.
C34_PublishedQuestionsFrozen ==
    [][(nops' # nops /\ last'.op \in {"update_template", "delete_template"}) =>
          /\ data'.exams = data.exams
          /\ file'.kind = "dict" /\ file'.value.exams = data.exams]_vars
\* an exam published from a template whose question was replaced afterwards
C34_Witness ==
    /\ last.op = "update_template"
    /\ last.outcome = "ok"
    /\ Len(data.exams) >= 1
    /\ Len(data.templates) >= 1
    /\ data.templates[1].questions = << EditedQuestion >>
    /\ data.exams[Len(data.exams)].template_id = data.templates[1].template_id
    /\ data.exams[Len(data.exams)].exam_id = new_exam_id
    /\ data.exams[Len(data.exams)].questions = << NewQuestion >>

\* C35: every exam in the store opens before it closes, start_ts < end_ts,
\* whether publish_exam created it or load() read it from a stored document.
C35_WindowOrdered ==
    Constructed =>
        \A i \in 1 .. Len(data.exams) :
            /\ {"start_ts", "end_ts"} \subseteq DOMAIN data.exams[i]
            /\ data.exams[i].start_ts < data.exams[i].end_ts

\* C36: new_unique_code draws again and again without a bound on the number
\* of draws: when some code that can be drawn is used by no exam and the
\* draws are fair the call returns, and when every such code is used by an
\* exam it never returns.
C36_CodeLoopTermination ==
    /\ (code_call.pc = "loop" /\ new_unique_code # {}) ~> (code_call.pc = "done")
    /\ [][(code_call.pc = "loop" /\ new_unique_code = {}) =>
             (code_call'.pc = "loop" /\ data' = data /\ nops' = nops)]_vars
\* the call returned after a draw that an exam already had and one that was free
C36_Witness ==
    /\ code_call.pc = "done"
    /\ code_call.tries = 2
    /\ Cardinality(all_codes) = 3
    /\ code_call.code \notin all_codes

\* C37: for an exam with attempt_limit = L > 0 the store never holds more
\* than L Attempts of one user for that exam, whatever the student opens,
\* starts, submits and leaves and whenever the timer runs.
C37_LimitNeverExceeded ==
    \A i \in 1 .. Len(exams) :
        exams[i].attempt_limit > 0 =>
            \A k \in 1 .. Len(attempts) :
                count_attempts_for_user_exam(attempts[k].username, exams[i].exam_id)
                    <= exams[i].attempt_limit

\* C39: what a submit persists does not depend on the order the questions
\* were shown in: a click changes the answer of the real question on screen,
\* the Attempt carries the answers by real index with the score summed over
\* the real indices, and two Attempts of one exam whose answers are equal for
\* every real question have equal score, total and answers, whatever their
\* shuffles were.
C39_ShuffleIndependent ==
    /\ [](\A a, b \in 1 .. Len(attempts) :
            (attempts[a].exam_id = attempts[b].exam_id
               /\ \A r \in 1 .. Len(attempts[a].answers) :
                     attempts[a].answers[r] = attempts[b].answers[r])
            => /\ attempts[a].score = attempts[b].score
               /\ attempts[a].total = attempts[b].total
               /\ attempts[a].answers = attempts[b].answers)
    /\ [][/\ \A i \in Options :
               ClickOption(i) =>
                   \A r \in 1 .. Len(answers) :
                       r # shuffled_indices[index] => answers'[r] = answers[r]
          /\ attempts' # attempts =>
               /\ attempts' = Append(attempts, LastAttempt')
               /\ LastAttempt'.answers = answers
               /\ LastAttempt'.total = Len(exam.questions)
               /\ RatEq(LastAttempt'.score,
                        SumEarned(answers, exam.questions,
                                  1 .. Len(exam.questions)))]_vars
\* the exam was taken twice, shown in two orders, with the same answers
C39_Witness ==
    /\ Len(attempts) = 2
    /\ attempts[1].shuffle = << 1, 2 >>
    /\ attempts[2].shuffle = << 2, 1 >>
    /\ attempts[1].answers = << {1}, {0} >>
    /\ attempts[2].answers = << {1}, {0} >>
    /\ attempts[1].score = << 3, 2 >>
    /\ attempts[2].score = << 3, 2 >>

\* session s is in progress and its end lies within the modelled time
InProgress(s) ==
    /\ sess = s
    /\ frame = "ExamTakeFrame"
    /\ view = "taking"
    /\ end_time <= Horizon
\* the student left session s (back, or a later session) with nothing handed in
Abandoned(s) ==
    /\ sess > s \/ (sess = s /\ frame # "ExamTakeFrame")
    /\ AttemptsOf(s) = {}
Submitted(s) == AttemptsOf(s) # {}

\* C40: with the clock advancing and every due callback run, a session that
\* is in progress and is not navigated away from is eventually submitted, and
\* from then on the store holds exactly one Attempt of it.
C40_TimerSubmitsExactlyOnce ==
    \A s \in 1 .. MaxSessions :
        InProgress(s) ~> (Abandoned(s) \/ [](Cardinality(AttemptsOf(s)) = 1))
\* the progress half alone: the session is eventually submitted or left
TimerEventuallySubmits ==
    \A s \in 1 .. MaxSessions :
        InProgress(s) ~> (Abandoned(s) \/ Submitted(s))

====
